---------------------------- MODULE Spec2Model ----------------------------
(***************************************************************************)
(* Verification model of the signal-fusion and trend-inference engine of   *)
(* openclaw_stock:                                                         *)
(*   - analysis/chip_analysis.py : _analyze_chip_trend (window means,      *)
(*     trend labels, scoring rules, verdict), _assess_chip_status,         *)
(*     analyze_chip_distribution, _empty_chip_result;                      *)
(*   - analysis/stock_analyzer.py: analyze_stock (per-domain steps and the *)
(*     prediction block that sums the nudges).                             *)
(*                                                                         *)
(* Number representation.                                                  *)
(*   Series values (ratios, costs) are integers in fixed units: ratios in  *)
(*   1/1000, costs in cents.  A mean is the pair [sum, n]; comparisons of  *)
(*   means against thresholds are done by cross-multiplication, i.e. in    *)
(*   exact rational arithmetic.                                            *)
(*   The aggregated probability is an IEEE-754 double in the code.  It is  *)
(*   modelled exactly, see the section "binary64 arithmetic" below.        *)
(***************************************************************************)
EXTENDS Integers, Sequences, FiniteSets, TLC

VARIABLES
    df,        \* chip series handed to _analyze_chip_trend (sequence of rows)
    trend,     \* the trend record _analyze_chip_trend returns
    cpc,       \* position of the chip analysis: "idle" | "start" | "done"
               \* (_analyze_chip_trend), "returned" | "calculation_error"
               \* (analyze_chip_distribution)
    result,    \* analyze_stock: the result dict, one field per section
    pc,        \* analyze_stock: the step about to run
    trend_probability,  \* analyze_stock: the local of that name (a double)
    informative,        \* analyze_stock: steps so far whose callee returned
    outage,    \* how a failing callee of steps 6-15 fails in this run:
               \* "raises" (an exception) | "empty" (its own failure shape)
               \* | "sampled" (an exception, in a run where any number of
               \* callees return and each that returns gives its sample);
               \* for analyze_chip_distribution run on its own, what its
               \* provider does: "empty" (no provider library) | "raises"
               \* | "answers" (returns the frame df)
    halves     \* analyze_stock: for the high and the low target price, whether
               \* round(price * factor, 2) goes up when the exact product is
               \* half a cent (the double product falls on either side of it)

chipVars == <<df, trend, cpc>>
aggVars == <<result, pc, trend_probability, informative, outage, halves>>
vars == <<df, trend, cpc, result, pc, trend_probability, informative, outage, halves>>

--------------------------------------------------------------------------
(* Generic helpers                                                         *)

Min(a, b) == IF a < b THEN a ELSE b
Max(a, b) == IF a > b THEN a ELSE b

\* dict.get(key, default)
Get(d, k, dflt) == IF k \in DOMAIN d THEN d[k] ELSE dflt

\* the empty dict {}
EmptyDict == [k \in {} |-> 0]

\* truthiness of a dict: non-empty
Truthy(d) == DOMAIN d # {}

\* Python slice bound normalisation for a sequence of length n
PyIdx(i, n) == IF i < 0 THEN Max(n + i, 0) ELSE Min(i, n)

\* s[a:b] with Python (0-based, negative-from-the-end) bounds
ILoc(s, a, b) == SubSeq(s, PyIdx(a, Len(s)) + 1, PyIdx(b, Len(s)))

\* s[a:]
ILocFrom(s, a) == SubSeq(s, PyIdx(a, Len(s)) + 1, Len(s))

RECURSIVE SumField(_, _)
SumField(s, f) == IF s = <<>> THEN 0 ELSE s[1][f] + SumField(Tail(s), f)

\* Series.mean() of column f over the rows s, kept as the exact fraction sum/n.
\* n = 0 stands for NaN (mean of an empty slice).
Mean(s, f) == [sum |-> SumField(s, f), n |-> Len(s)]

\* a < b * num/den for means a, b (den > 0); False when either side is NaN
MeanLtScaled(a, b, num, den) ==
    /\ a.n > 0 /\ b.n > 0
    /\ a.sum * b.n * den < b.sum * num * a.n

\* a > b * num/den
MeanGtScaled(a, b, num, den) ==
    /\ a.n > 0 /\ b.n > 0
    /\ a.sum * b.n * den > b.sum * num * a.n

\* a > b + off   (off in the unit of the column)
MeanGtPlus(a, b, off) ==
    /\ a.n > 0 /\ b.n > 0
    /\ a.sum * b.n > b.sum * a.n + off * a.n * b.n

\* a < b - off
MeanLtMinus(a, b, off) ==
    /\ a.n > 0 /\ b.n > 0
    /\ a.sum * b.n < b.sum * a.n - off * a.n * b.n


--------------------------------------------------------------------------
(* chip_analysis.py : _analyze_chip_trend                                  *)
(* A row of the series has the columns                                     *)
(*   day  : ordinal of the trading day (ascending)                         *)
(*   win  : winner ratio, in 1/1000                                        *)
(*   cost : average cost, in cents                                         *)
(*   c90  : 90% concentration, in 1/1000                                   *)
(*   c70  : 70% concentration, in 1/1000                                   *)

\* the dict _analyze_chip_trend starts from
DefaultTrend ==
    [ concentration_trend      |-> "stable",
      cost_center_trend        |-> "stable",
      winner_rate_trend        |-> "stable",
      period_days              |-> 0,
      institutional_signal     |-> "neutral",
      institutional_confidence |-> "low",
      multi_period             |-> EmptyDict,
      details                  |-> EmptyDict,
      interpretation           |-> <<>> ]

\* periods = {"short": 5, "medium": 10, "long": 20}
PeriodNames == {"short", "medium", "long"}
PeriodLen(p) == CASE p = "short" -> 5 [] p = "medium" -> 10 [] p = "long" -> 20

\* earlier window of one horizon, the variant that always takes the
\* first rows of the series
PeriodEarlier_AlwaysFirst(d, plen) == ILoc(d, 0, plen)

\* recent / earlier window of one horizon
PeriodRecent(d, plen) == ILocFrom(d, -plen)
PeriodEarlier(d, plen) ==
    IF Len(d) >= plen * 2 THEN ILoc(d, -(plen * 2), -plen) ELSE ILoc(d, 0, plen)

\* (recent - earlier) / earlier if earlier != 0 else 0 (189-191), kept as
\* the exact fraction num/den of the means; the report multiplies it by 100
\* and rounds to 2 decimals, which leaves the 0 of the else branch 0
RelativeChange(recent, earlier) ==
    IF earlier.sum # 0
    THEN [ num |-> recent.sum * earlier.n - earlier.sum * recent.n,
           den |-> earlier.sum * recent.n ]
    ELSE [ num |-> 0, den |-> 1 ]

\* the entry of one horizon (194-204): its relative changes and the means
\* it reports, each mean as the exact fraction sum/n
PeriodEntry(recent, earlier, plen) ==
    [ days |-> plen,
      concentration_90_change_pct |->
          RelativeChange(Mean(recent, "c90"), Mean(earlier, "c90")),
      concentration_70_change_pct |->
          RelativeChange(Mean(recent, "c70"), Mean(earlier, "c70")),
      cost_center_change_pct |->
          RelativeChange(Mean(recent, "cost"), Mean(earlier, "cost")),
      recent_avg_cost  |-> Mean(recent, "cost"),
      earlier_avg_cost |-> Mean(earlier, "cost"),
      recent_concentration_90 |-> Mean(recent, "c90"),
      recent_winner_rate |-> Mean(recent, "win") ]

\* the variant that asks two full windows of every horizon
MultiPeriod_TwoWindows(d) ==
    [ p \in { q \in PeriodNames : ~ (Len(d) < PeriodLen(q) * 2) } |->
        PeriodEntry(PeriodRecent(d, PeriodLen(p)),
                    PeriodEarlier(d, PeriodLen(p)), PeriodLen(p)) ]

\* the horizons that are computed: the loop skips a horizon when
\* len(df) < period_len + 5
MultiPeriod(d) ==
    [ p \in { q \in PeriodNames : ~ (Len(d) < PeriodLen(q) + 5) } |->
        PeriodEntry(PeriodRecent(d, PeriodLen(p)),
                    PeriodEarlier(d, PeriodLen(p)), PeriodLen(p)) ]

\* main comparison windows
RecentN(d)    == Min(5, Len(d))
EarlyStart(d) == Max(0, Len(d) - 20)
EarlyEnd(d)   == Max(RecentN(d), Len(d) - 10)
MainRecent(d) == ILocFrom(d, -RecentN(d))
MainEarly(d)  == ILoc(d, EarlyStart(d), EarlyEnd(d))

\* variant: a 4% threshold on the narrowing side
ConcentrationTrend_Narrow4(recent, early) ==
    IF MeanLtScaled(recent, early, 96, 100) THEN "concentrating"
    ELSE IF MeanGtScaled(recent, early, 105, 100) THEN "dispersing"
    ELSE "stable"

\* concentration_trend
ConcentrationTrend(recent, early) ==
    IF MeanLtScaled(recent, early, 95, 100) THEN "concentrating"
    ELSE IF MeanGtScaled(recent, early, 105, 100) THEN "dispersing"
    ELSE "stable"

\* variant: the 5% threshold of the concentration applied to the cost
CostCenterTrend_FivePercent(recent, early) ==
    IF MeanGtScaled(recent, early, 105, 100) THEN "rising"
    ELSE IF MeanLtScaled(recent, early, 95, 100) THEN "falling"
    ELSE "stable"

\* cost_center_trend
CostCenterTrend(recent, early) ==
    IF MeanGtScaled(recent, early, 102, 100) THEN "rising"
    ELSE IF MeanLtScaled(recent, early, 98, 100) THEN "falling"
    ELSE "stable"

\* variant: a relative 5% threshold instead of the absolute 0.05
WinnerRateTrend_Relative(recent, early) ==
    IF MeanGtScaled(recent, early, 105, 100) THEN "rising"
    ELSE IF MeanLtScaled(recent, early, 95, 100) THEN "falling"
    ELSE "stable"

\* winner_rate_trend: absolute difference of 0.05 = 50/1000
WinnerRateTrend(recent, early) ==
    IF MeanGtPlus(recent, early, 50) THEN "rising"
    ELSE IF MeanLtMinus(recent, early, 50) THEN "falling"
    ELSE "stable"

\* signal 8 windows on the 70% concentration
Recent70(d) == Mean(ILocFrom(d, -5), "c70")
Early70(d)  == IF Len(d) >= 15 THEN Mean(ILoc(d, -15, -5), "c70")
               ELSE Mean(ILoc(d, 0, 5), "c70")

\* variant: rule 6 adds to the distribution score only
Rules_ShakeOutOneSided(conc, cost, winner, latest_winner, d) ==
    << [fires |-> conc = "concentrating" /\ winner = "falling",
        acc |-> 3, dist |-> 0, text |-> "sig1"],
       [fires |-> conc = "concentrating" /\ cost = "falling",
        acc |-> 2, dist |-> 0, text |-> "sig2"],
       [fires |-> conc = "concentrating" /\ winner = "rising",
        acc |-> 1, dist |-> 0, text |-> "sig3"],
       [fires |-> conc = "dispersing" /\ winner = "rising",
        acc |-> 0, dist |-> 3, text |-> "sig4"],
       [fires |-> conc = "dispersing" /\ cost = "rising",
        acc |-> 0, dist |-> 2, text |-> "sig5"],
       [fires |-> conc = "dispersing" /\ winner = "falling",
        acc |-> 0, dist |-> 1, text |-> "sig6"],
       [fires |-> cost = "falling" /\ latest_winner < 150,
        acc |-> 1, dist |-> 0, text |-> "sig7"],
       [fires |-> Len(d) >= 10 /\ MeanLtScaled(Recent70(d), Early70(d), 90, 100),
        acc |-> 2, dist |-> 0, text |-> "sig8_narrow"],
       [fires |-> /\ Len(d) >= 10
                  /\ ~ MeanLtScaled(Recent70(d), Early70(d), 90, 100)
                  /\ MeanGtScaled(Recent70(d), Early70(d), 110, 100),
        acc |-> 0, dist |-> 1, text |-> "sig8_widen"] >>

\* The eight scoring rules, in source order.  Each rule is
\* [fires, acc, dist, text]; the scores are the sums over the firing rules
\* and interpretation lists the texts of the firing rules in order.
Rules(conc, cost, winner, latest_winner, d) ==
    << [fires |-> conc = "concentrating" /\ winner = "falling",
        acc |-> 3, dist |-> 0, text |-> "sig1"],
       [fires |-> conc = "concentrating" /\ cost = "falling",
        acc |-> 2, dist |-> 0, text |-> "sig2"],
       [fires |-> conc = "concentrating" /\ winner = "rising",
        acc |-> 1, dist |-> 0, text |-> "sig3"],
       [fires |-> conc = "dispersing" /\ winner = "rising",
        acc |-> 0, dist |-> 3, text |-> "sig4"],
       [fires |-> conc = "dispersing" /\ cost = "rising",
        acc |-> 0, dist |-> 2, text |-> "sig5"],
       [fires |-> conc = "dispersing" /\ winner = "falling",
        acc |-> 1, dist |-> 1, text |-> "sig6"],
       [fires |-> cost = "falling" /\ latest_winner < 150,
        acc |-> 1, dist |-> 0, text |-> "sig7"],
       [fires |-> Len(d) >= 10 /\ MeanLtScaled(Recent70(d), Early70(d), 90, 100),
        acc |-> 2, dist |-> 0, text |-> "sig8_narrow"],
       [fires |-> /\ Len(d) >= 10
                  /\ ~ MeanLtScaled(Recent70(d), Early70(d), 90, 100)
                  /\ MeanGtScaled(Recent70(d), Early70(d), 110, 100),
        acc |-> 0, dist |-> 1, text |-> "sig8_widen"] >>

\* variant: the weights of all rules are added, fired or not
RECURSIVE SumFired_AllRules(_, _)
SumFired_AllRules(rs, f) ==
    IF rs = <<>> THEN 0 ELSE rs[1][f] + SumFired_AllRules(Tail(rs), f)

RECURSIVE SumFired(_, _)
SumFired(rs, f) ==
    IF rs = <<>> THEN 0
    ELSE (IF rs[1].fires THEN rs[1][f] ELSE 0) + SumFired(Tail(rs), f)

RECURSIVE TextsFired(_)
TextsFired(rs) ==
    IF rs = <<>> THEN <<>>
    ELSE (IF rs[1].fires THEN <<rs[1].text>> ELSE <<>>) \o TextsFired(Tail(rs))

\* variant: the 'high' tier starts above 5 instead of at 5
InstitutionalVerdict_HighAbove5(accumulation_score, distribution_score) ==
    IF accumulation_score >= 3 /\ accumulation_score > distribution_score * 2
    THEN [signal |-> "accumulating",
          confidence |-> IF accumulation_score > 5 THEN "high" ELSE "medium"]
    ELSE IF accumulation_score > distribution_score
    THEN [signal |-> "accumulating", confidence |-> "low"]
    ELSE IF distribution_score >= 3 /\ distribution_score > accumulation_score * 2
    THEN [signal |-> "distributing",
          confidence |-> IF distribution_score >= 5 THEN "high" ELSE "medium"]
    ELSE IF distribution_score > accumulation_score
    THEN [signal |-> "distributing", confidence |-> "low"]
    ELSE [signal |-> "neutral", confidence |-> "low"]

\* variant: the distributing branch needs a score above 3 for 'medium'
InstitutionalVerdict_DistAbove3(accumulation_score, distribution_score) ==
    IF accumulation_score >= 3 /\ accumulation_score > distribution_score * 2
    THEN [signal |-> "accumulating",
          confidence |-> IF accumulation_score >= 5 THEN "high" ELSE "medium"]
    ELSE IF accumulation_score > distribution_score
    THEN [signal |-> "accumulating", confidence |-> "low"]
    ELSE IF distribution_score > 3 /\ distribution_score > accumulation_score * 2
    THEN [signal |-> "distributing",
          confidence |-> IF distribution_score >= 5 THEN "high" ELSE "medium"]
    ELSE IF distribution_score > accumulation_score
    THEN [signal |-> "distributing", confidence |-> "low"]
    ELSE [signal |-> "neutral", confidence |-> "low"]

\* variant: a tie goes to 'accumulating'
InstitutionalVerdict_TieAccumulates(accumulation_score, distribution_score) ==
    IF accumulation_score >= 3 /\ accumulation_score > distribution_score * 2
    THEN [signal |-> "accumulating",
          confidence |-> IF accumulation_score >= 5 THEN "high" ELSE "medium"]
    ELSE IF accumulation_score >= distribution_score
    THEN [signal |-> "accumulating", confidence |-> "low"]
    ELSE IF distribution_score >= 3 /\ distribution_score > accumulation_score * 2
    THEN [signal |-> "distributing",
          confidence |-> IF distribution_score >= 5 THEN "high" ELSE "medium"]
    ELSE IF distribution_score > accumulation_score
    THEN [signal |-> "distributing", confidence |-> "low"]
    ELSE [signal |-> "neutral", confidence |-> "low"]

\* variant: the 'medium' tier of the accumulating branch starts at 4
InstitutionalVerdict_MediumFromFour(accumulation_score, distribution_score) ==
    IF accumulation_score >= 4 /\ accumulation_score > distribution_score * 2
    THEN [signal |-> "accumulating",
          confidence |-> IF accumulation_score >= 5 THEN "high" ELSE "medium"]
    ELSE IF accumulation_score > distribution_score
    THEN [signal |-> "accumulating", confidence |-> "low"]
    ELSE IF distribution_score >= 3 /\ distribution_score > accumulation_score * 2
    THEN [signal |-> "distributing",
          confidence |-> IF distribution_score >= 5 THEN "high" ELSE "medium"]
    ELSE IF distribution_score > accumulation_score
    THEN [signal |-> "distributing", confidence |-> "low"]
    ELSE [signal |-> "neutral", confidence |-> "low"]

\* verdict on the two scores
InstitutionalVerdict(accumulation_score, distribution_score) ==
    IF accumulation_score >= 3 /\ accumulation_score > distribution_score * 2
    THEN [signal |-> "accumulating",
          confidence |-> IF accumulation_score >= 5 THEN "high" ELSE "medium"]
    ELSE IF accumulation_score > distribution_score
    THEN [signal |-> "accumulating", confidence |-> "low"]
    ELSE IF distribution_score >= 3 /\ distribution_score > accumulation_score * 2
    THEN [signal |-> "distributing",
          confidence |-> IF distribution_score >= 5 THEN "high" ELSE "medium"]
    ELSE IF distribution_score > accumulation_score
    THEN [signal |-> "distributing", confidence |-> "low"]
    ELSE [signal |-> "neutral", confidence |-> "low"]


\* _calc_slope: least-squares slope of the values against 0..n-1, as the
\* exact fraction num/den of the closed form (n*Sxy - Sx*Sy)/(n*Sxx - Sx^2);
\* fewer than 2 points give 0.
RECURSIVE SumXY(_, _, _)
SumXY(s, f, x) == IF s = <<>> THEN 0 ELSE x * s[1][f] + SumXY(Tail(s), f, x + 1)

RECURSIVE SumX(_, _)
SumX(n, pow) == IF n = 0 THEN 0
                ELSE (IF pow = 2 THEN (n - 1) * (n - 1) ELSE n - 1) + SumX(n - 1, pow)

CalcSlope(s, f) ==
    LET n == Len(s) IN
    IF n < 2 THEN [num |-> 0, den |-> 1]
    ELSE [num |-> n * SumXY(s, f, 0) - SumX(n, 1) * SumField(s, f),
          den |-> n * SumX(n, 2) - SumX(n, 1) * SumX(n, 1)]

\* concentration_speed from the slope (threshold 0.001 per day = 1 unit)
ConcentrationSpeed(slope) ==
    IF slope.num < -slope.den THEN "fast_concentrating"
    ELSE IF slope.num < 0 THEN "slow_concentrating"
    ELSE IF slope.num > slope.den THEN "fast_dispersing"
    ELSE IF slope.num > 0 THEN "slow_dispersing"
    ELSE "stable"

\* _analyze_chip_trend(df)
AnalyzeChipTrend(d) ==
    IF Len(d) < 5 THEN DefaultTrend
    ELSE
    LET t1 == [DefaultTrend EXCEPT !.period_days = Len(d),
                                   !.multi_period = MultiPeriod(d)]
    IN
    IF EarlyEnd(d) <= EarlyStart(d) THEN t1
    ELSE
    LET recent == MainRecent(d)
        early  == MainEarly(d)
        conc   == ConcentrationTrend(Mean(recent, "c90"), Mean(early, "c90"))
        cost   == CostCenterTrend(Mean(recent, "cost"), Mean(early, "cost"))
        winner == WinnerRateTrend(Mean(recent, "win"), Mean(early, "win"))
        latest_winner == d[Len(d)].win
        rules  == Rules(conc, cost, winner, latest_winner, d)
        accumulation_score == SumFired(rules, "acc")
        distribution_score == SumFired(rules, "dist")
        verdict == InstitutionalVerdict(accumulation_score, distribution_score)
        speed  == IF Len(d) >= 10
                  THEN ConcentrationSpeed(
                         CalcSlope(IF Len(d) >= 20 THEN ILocFrom(d, -20) ELSE d, "c90"))
                  ELSE "absent"
    IN [t1 EXCEPT
          !.concentration_trend      = conc,
          !.cost_center_trend        = cost,
          !.winner_rate_trend        = winner,
          !.institutional_signal     = verdict.signal,
          !.institutional_confidence = verdict.confidence,
          !.details = [ accumulation_score  |-> accumulation_score,
                        distribution_score  |-> distribution_score,
                        concentration_speed |-> speed ],
          !.interpretation = TextsFired(rules) ]

--------------------------------------------------------------------------
(* Inputs of the chip analysis                                             *)
(* A series has n rows; the last RecentRows rows carry the "recent" level  *)
(* of every column and the rows before them the "early" level.             *)

MaxLen == 26
RecentRows == 5

Row(day, lv) == [day |-> day, win |-> lv.win, cost |-> lv.cost,
                 c90 |-> lv.c90, c70 |-> lv.c70]

BuildSeries(n, early, recent) ==
    [ i \in 1..n |-> IF i > n - RecentRows THEN Row(i, recent) ELSE Row(i, early) ]

\* (early, recent) levels per column, chosen to sit on, just inside and just
\* outside every threshold of the classifier and of the rules
C90Levels  == { <<100, r>> : r \in {94, 95, 100, 105, 106} }
CostLevels == { <<1000, r>> : r \in {979, 980, 1000, 1020, 1021} }
WinLevels  == { <<500, 449>>, <<500, 450>>, <<500, 500>>, <<500, 550>>,
                <<500, 551>>, <<500, 100>>, <<120, 100>> }
C70Levels  == { <<100, r>> : r \in {89, 90, 100, 110, 111} }

ChipInputs ==
    { BuildSeries(n,
        [win |-> w[1], cost |-> c[1], c90 |-> a[1], c70 |-> b[1]],
        [win |-> w[2], cost |-> c[2], c90 |-> a[2], c70 |-> b[2]]) :
        n \in 1..MaxLen, a \in C90Levels, c \in CostLevels,
        w \in WinLevels, b \in C70Levels }

\* a 25-day series whose 90% concentration went from 0.12 to 0.08 in the
\* last five days while the winner rate fell from 0.55 to 0.30
ChipExamples ==
    { BuildSeries(25,
        [win |-> 550, cost |-> 1000, c90 |-> 120, c70 |-> 100],
        [win |-> 300, cost |-> 1000, c90 |-> 80, c70 |-> 100]) }

ChipInit ==
    /\ df \in ChipInputs \cup ChipExamples
    /\ trend = EmptyDict
    /\ cpc = "start"
    /\ result = EmptyDict
    /\ pc = "idle"
    /\ trend_probability = [h |-> 50, d |-> 0]
    /\ informative = 0
    /\ outage = "raises"
    /\ halves = [high |-> FALSE, low |-> FALSE]

\* one call of _analyze_chip_trend on the fetched series
RunAnalyzeChipTrend ==
    /\ cpc = "start"
    /\ trend' = AnalyzeChipTrend(df)
    /\ cpc' = "done"
    /\ UNCHANGED df
    /\ UNCHANGED aggVars

ChipNext == RunAnalyzeChipTrend

SpecChip == ChipInit /\ [][ChipNext]_vars


--------------------------------------------------------------------------
(* Properties of the chip trend analysis, checked under SpecChip           *)

MaxScore == 8
ScoreRange == 0..MaxScore

\* the run has gone through the scoring rules
Scored == cpc = "done" /\ "accumulation_score" \in DOMAIN trend.details
AccScore == trend.details.accumulation_score
DistScore == trend.details.distribution_score

\* what C1 prescribes for a pair of scores and a verdict
AccumulatingAsClaimed(a, d, signal, confidence) ==
    /\ (signal = "accumulating") <=> (a > d)
    /\ a > d =>
         confidence = (IF a >= 5 /\ a > 2 * d THEN "high"
                       ELSE IF a \in {3, 4} /\ a > 2 * d THEN "medium"
                       ELSE "low")

\* C1: the signal is 'accumulating' exactly when accumulation_score >
\* distribution_score, and then the confidence is high (score >= 5 and more
\* than twice the other), medium (score 3 or 4 and more than twice the
\* other) or low (every other case); for the verdict of every analysed
\* series and for every pair of scores.
C1_AccumulatingBranch ==
    /\ Scored => AccumulatingAsClaimed(AccScore, DistScore,
                     trend.institutional_signal, trend.institutional_confidence)
    /\ \A a \in ScoreRange, d \in ScoreRange :
         AccumulatingAsClaimed(a, d, InstitutionalVerdict(a, d).signal,
                               InstitutionalVerdict(a, d).confidence)

\* a run whose accumulation score of 4 wins with medium confidence
C1_Witness ==
    /\ Scored /\ AccScore = 4 /\ AccScore > 2 * DistScore
    /\ trend.institutional_signal = "accumulating"
    /\ trend.institutional_confidence = "medium"

DistributingAsClaimed(a, d, signal, confidence) ==
    /\ (signal = "distributing") <=> (d > a)
    /\ d > a =>
         confidence = (IF d >= 5 /\ d > 2 * a THEN "high"
                       ELSE IF d \in {3, 4} /\ d > 2 * a THEN "medium"
                       ELSE "low")

SwapSignal(sig) == CASE sig = "accumulating" -> "distributing"
                     [] sig = "distributing" -> "accumulating"
                     [] OTHER -> sig

\* C2: the distributing branch mirrors the accumulating one: 'distributing'
\* exactly when distribution_score > accumulation_score, with the same
\* confidence tiers, and swapping the two scores swaps
\* accumulating/distributing and keeps the confidence.
C2_DistributingMirror ==
    /\ Scored =>
         /\ DistributingAsClaimed(AccScore, DistScore,
               trend.institutional_signal, trend.institutional_confidence)
         /\ InstitutionalVerdict(DistScore, AccScore) =
               [signal |-> SwapSignal(trend.institutional_signal),
                confidence |-> trend.institutional_confidence]
    /\ \A a \in ScoreRange, d \in ScoreRange :
         /\ DistributingAsClaimed(a, d, InstitutionalVerdict(a, d).signal,
                                  InstitutionalVerdict(a, d).confidence)
         /\ InstitutionalVerdict(d, a) =
               [signal |-> SwapSignal(InstitutionalVerdict(a, d).signal),
                confidence |-> InstitutionalVerdict(a, d).confidence]

\* a run whose distribution score of 3 or 4 wins with medium confidence
C2_Witness ==
    /\ Scored /\ DistScore \in {3, 4} /\ DistScore > 2 * AccScore
    /\ trend.institutional_signal = "distributing"
    /\ trend.institutional_confidence = "medium"

\* C3: the signal is 'neutral' exactly when the two scores are equal, a
\* neutral signal has confidence 'low', scores (5,1) give accumulating/high
\* and scores (2,2) give neutral/low.
C3_TieIsNeutral ==
    /\ Scored =>
         /\ (trend.institutional_signal = "neutral") <=> (AccScore = DistScore)
         /\ trend.institutional_signal = "neutral" =>
               trend.institutional_confidence = "low"
         /\ (AccScore = 5 /\ DistScore = 1) =>
               /\ trend.institutional_signal = "accumulating"
               /\ trend.institutional_confidence = "high"
         /\ (AccScore = 2 /\ DistScore = 2) =>
               /\ trend.institutional_signal = "neutral"
               /\ trend.institutional_confidence = "low"
    /\ \A a \in ScoreRange, d \in ScoreRange :
         /\ (InstitutionalVerdict(a, d).signal = "neutral") <=> (a = d)
         /\ a = d => InstitutionalVerdict(a, d).confidence = "low"

\* a run that ties at (2,2)
C3_Witness ==
    /\ Scored /\ AccScore = 2 /\ DistScore = 2
    /\ trend.institutional_signal = "neutral"

\* a run that scores (5,1)
C3_FiveOneReached == Scored /\ AccScore = 5 /\ DistScore = 1


\* the run has gone through the main comparison
Compared == cpc = "done" /\ Len(df) >= 5

\* sums and sizes of the two windows of the main comparison
RecentSum(f) == SumField(MainRecent(df), f)
RecentCnt    == Len(MainRecent(df))
EarlySum(f)  == SumField(MainEarly(df), f)
EarlyCnt     == Len(MainEarly(df))

\* C4: concentration_trend is 'concentrating' iff the recent mean of the
\* 90% concentration is strictly below 0.95 times the earlier mean,
\* 'dispersing' iff it is strictly above 1.05 times the earlier mean and
\* 'stable' otherwise, so that a recent mean equal to 0.95x or 1.05x the
\* earlier mean is 'stable'.
C4_ConcentrationLabel ==
    Compared =>
      LET below == RecentSum("c90") * EarlyCnt * 100 < 95 * EarlySum("c90") * RecentCnt
          above == RecentSum("c90") * EarlyCnt * 100 > 105 * EarlySum("c90") * RecentCnt
      IN /\ (trend.concentration_trend = "concentrating") <=> below
         /\ (trend.concentration_trend = "dispersing") <=> above
         /\ (trend.concentration_trend = "stable") <=> (~ below /\ ~ above)

\* a run whose recent mean is exactly 0.95 times a non-zero earlier mean
C4_Witness ==
    /\ Compared /\ EarlySum("c90") > 0
    /\ RecentSum("c90") * EarlyCnt * 100 = 95 * EarlySum("c90") * RecentCnt
    /\ trend.concentration_trend = "stable"

\* C5: cost_center_trend is 'rising' if the recent mean average cost is
\* strictly above 1.02 times the earlier mean, 'falling' if it is strictly
\* below 0.98 times the earlier mean and 'stable' otherwise.
C5_CostCenterLabel ==
    Compared =>
      LET above == RecentSum("cost") * EarlyCnt * 100 > 102 * EarlySum("cost") * RecentCnt
          below == RecentSum("cost") * EarlyCnt * 100 < 98 * EarlySum("cost") * RecentCnt
      IN trend.cost_center_trend =
           (IF above THEN "rising" ELSE IF below THEN "falling" ELSE "stable")

\* a run whose recent mean cost is exactly 0.98 times the earlier mean
C5_Witness ==
    /\ Compared /\ EarlySum("cost") > 0
    /\ RecentSum("cost") * EarlyCnt * 100 = 98 * EarlySum("cost") * RecentCnt
    /\ trend.cost_center_trend = "stable"

\* C6: winner_rate_trend uses an absolute threshold: 'rising' if recent
\* mean minus earlier mean is strictly greater than 0.05, 'falling' if it
\* is strictly less than -0.05, 'stable' otherwise, whatever the size of
\* the earlier mean.
C6_WinnerRateLabel ==
    Compared =>
      LET diffNum == RecentSum("win") * EarlyCnt - EarlySum("win") * RecentCnt
          fifty   == 50 * RecentCnt * EarlyCnt
      IN trend.winner_rate_trend =
           (IF diffNum > fifty THEN "rising"
            ELSE IF diffNum < - fifty THEN "falling" ELSE "stable")

\* a run whose winner rate moved by more than 5% of the earlier mean but by
\* no more than 0.05 in absolute terms, and is labelled 'stable'
C6_Witness ==
    /\ Compared
    /\ RecentSum("win") * EarlyCnt * 100 < 95 * EarlySum("win") * RecentCnt
    /\ trend.winner_rate_trend = "stable"


--------------------------------------------------------------------------
(* binary64 arithmetic                                                     *)
(* analyze_stock keeps trend_probability in a Python float and adds the    *)
(* literals 0.2, 0.15, 0.1, 0.05, 0.03, 0.02 to it.  A double x met in     *)
(* that computation is an integer multiple of 2^-60; it is represented by  *)
(* [h, d] with x * 100 * 2^60 = h * 2^60 + d, where h is the nearest       *)
(* number of hundredths and d the (small) deviation from it.  Addition     *)
(* forms the exact sum and rounds it to the nearest double, ties to even,  *)
(* as IEEE-754 does.                                                       *)

RECURSIVE Pow2(_)
Pow2(k) == IF k = 0 THEN 1 ELSE 2 * Pow2(k - 1)

\* 2^e mod m
RECURSIVE Pow2Mod(_, _)
Pow2Mod(e, m) == IF e = 0 THEN 1 % m ELSE (2 * Pow2Mod(e - 1, m)) % m

\* exponent k of the binade [2^k, 2^(k+1)) holding h/100 + d/(100*2^60), h >= 1
Binade(h, d) ==
    IF h >= 200 THEN (IF h = 200 /\ d < 0 THEN 0 ELSE 1)
    ELSE IF h >= 100 THEN (IF h = 100 /\ d < 0 THEN -1 ELSE 0)
    ELSE IF h >= 50 THEN (IF h = 50 /\ d < 0 THEN -2 ELSE -1)
    ELSE IF h >= 25 THEN (IF h = 25 /\ d < 0 THEN -3 ELSE -2)
    ELSE IF h >= 13 THEN -3
    ELSE IF h >= 7 THEN -4
    ELSE IF h >= 4 THEN -5
    ELSE IF h >= 2 THEN -6
    ELSE -7

\* round the exact positive value [h, d] to the nearest double
RoundPos(h, d) ==
    LET k    == Binade(h, d)
        ulp  == 100 * Pow2(k + 8)              \* one ulp, in units of 2^-60/100
        t    == (h * Pow2Mod(52 - k, 200)) % 200
        r    == t % 100                        \* h*2^60 = q*ulp + r*2^(k+8)
        qodd == t \div 100                     \* parity of q
        off  == r * Pow2(k + 8) + d
        m    == off \div ulp
        rem  == off - m * ulp
        up   == IF 2 * rem < ulp THEN 0
                ELSE IF 2 * rem > ulp THEN 1
                ELSE (qodd + m) % 2
    IN [h |-> h, d |-> (m + up) * ulp - r * Pow2(k + 8)]

FRound(h, d) ==
    IF h = 0 THEN [h |-> 0, d |-> d]
    ELSE IF h < 0 THEN LET a == RoundPos(-h, -d) IN [h |-> -a.h, d |-> -a.d]
    ELSE RoundPos(h, d)

\* the double written as the decimal literal h/100
FLit(h) == FRound(h, 0)

FNeg(a) == [h |-> -a.h, d |-> -a.d]

\* a + b and a - b on doubles
FAdd(a, b) == FRound(a.h + b.h, a.d + b.d)
FSub(a, b) == FAdd(a, FNeg(b))

\* a > b and a < b on doubles
FGt(a, b) == a.h > b.h \/ (a.h = b.h /\ a.d > b.d)
FLt(a, b) == FGt(b, a)

\* round(x, 2), in hundredths
FRound2(a) == a.h


--------------------------------------------------------------------------
(* chip_analysis.py : analyze_chip_distribution                            *)
(* String literals of the source that are not ASCII are written as ASCII   *)
(* tokens; the comment at each token gives the source line of the literal. *)

\* result["latest"] (the columns the later stages read)
ChipLatest(d) ==
    LET latest == d[Len(d)] IN
    [ date             |-> latest.day,
      winner_rate      |-> latest.win,
      average_cost     |-> latest.cost,
      concentration_90 |-> latest.c90,
      concentration_70 |-> latest.c70 ]

\* _assess_chip_status: status, pressure and support labels and the verdict
\* copied from the trend record.  current_price = 0 stands for None or 0,
\* both falsy at line 417.  Ratios in 1/1000, prices in cents.
AssessChipStatus(latest, tr, current_price) ==
    LET winner_rate      == latest.winner_rate
        concentration_90 == latest.concentration_90
        avg_cost         == latest.average_cost
        chip_status ==
            IF concentration_90 < 100 THEN "highly_concentrated"
            ELSE IF concentration_90 < 200 THEN "concentrated"
            ELSE IF concentration_90 > 400 THEN "dispersed"
            ELSE "neutral"
        pressure_level ==
            IF winner_rate > 900 THEN "high"
            ELSE IF winner_rate > 700 THEN "medium_high"
            ELSE IF winner_rate < 100 THEN "low"
            ELSE IF winner_rate < 300 THEN "low"
            ELSE "medium"
        support1 == IF ~ (winner_rate > 700) /\ winner_rate < 100
                    THEN "low" ELSE "medium"
        \* (current_price - avg_cost) / avg_cost < -0.15
        support_level ==
            IF current_price # 0 /\ avg_cost > 0
               /\ ~ ((current_price - avg_cost) * 100 > 15 * avg_cost)
               /\ (current_price - avg_cost) * 100 < -15 * avg_cost
            THEN "low" ELSE support1
    IN [ chip_status    |-> chip_status,
         pressure_level |-> pressure_level,
         support_level  |-> support_level,
         institutional_signal |-> Get(tr, "institutional_signal", "neutral"),
         institutional_confidence |-> Get(tr, "institutional_confidence", "low"),
         institutional_interpretation |-> Get(tr, "interpretation", <<>>) ]

\* _empty_chip_result(error_msg)
EmptyChipResult ==
    [ latest |-> EmptyDict,
      trend  |-> EmptyDict,
      assessment |-> [ chip_status    |-> "unknown",
                       pressure_level |-> "unknown",
                       support_level  |-> "unknown",
                       signals        |-> <<>>,
                       summary        |-> "chip_fetch_failed" ],
      error |-> "data_source_error" ]

\* analyze_chip_distribution when the series d was fetched and the
\* computation went through
ChipResult(d, current_price) ==
    LET latest == ChipLatest(d)
        tr     == AnalyzeChipTrend(d)
    IN [ latest |-> latest, trend |-> tr,
         assessment |-> AssessChipStatus(latest, tr, current_price) ]

\* chip series used when the whole of analyze_stock is run, each given by
\* the earlier and recent level of the 90% concentration and of the winner
\* rate
AggChipInputs ==
    { BuildSeries(12,
        [win |-> x[3], cost |-> 1000, c90 |-> x[1], c70 |-> 100],
        [win |-> x[4], cost |-> 1000, c90 |-> x[2], c70 |-> 100]) :
        x \in { <<100, 94, 500, 500>>, <<100, 94, 500, 50>>,
                <<150, 150, 500, 50>>, <<300, 300, 500, 500>>,
                <<450, 480, 500, 500>>, <<450, 480, 850, 950>> } }


--------------------------------------------------------------------------
(* data/*.py : the nine added data sources.  Each fetch_* builds its       *)
(* result from what the provider returned (nothing when the provider call  *)
(* failed, which the module swallows) and then runs its analyzer.          *)

RECURSIVE SumSeq(_)
SumSeq(s) == IF s = <<>> THEN 0 ELSE s[1] + SumSeq(Tail(s))

\* lhb_data.py _analyze_lhb.  Tokens: "none" (line 107), "neutral_zh" (108),
\* "frequent"/"occasional"/"few" (121-125), "net_buy"/"net_sell" (130-132),
\* "inst_net_buy" (137), "inst_net_sell" (139).
AnalyzeLhb(data) ==
    LET base == [lhb_frequency |-> "none", institution_attitude |-> "neutral_zh"]
        records == data.records
        inst == data.institution_summary
        count == Len(records)
        net_buy == Get(inst, "net_buy", 0)
    IN IF records = <<>> THEN base
       ELSE [ lhb_frequency |-> IF count >= 5 THEN "frequent"
                                ELSE IF count >= 2 THEN "occasional" ELSE "few",
              lhb_direction |-> IF SumSeq(records) > 0 THEN "net_buy" ELSE "net_sell",
              institution_attitude |-> IF net_buy > 0 THEN "inst_net_buy"
                                       ELSE IF net_buy < 0 THEN "inst_net_sell"
                                       ELSE "neutral_zh" ]

\* fetch_lhb_data: records holds the net_buy of each listing
FetchLhbData(raw) ==
    LET r == [records |-> raw.records, institution_summary |-> raw.inst]
    IN [records |-> r.records, institution_summary |-> r.institution_summary,
        analysis |-> AnalyzeLhb(r)]

LhbNoData == [records |-> <<>>, inst |-> EmptyDict]
LhbRaw == { LhbNoData,
            [records |-> <<5>>, inst |-> EmptyDict],
            [records |-> <<5, -2>>, inst |-> [net_buy |-> 3]],
            [records |-> <<-5>>, inst |-> [net_buy |-> -3]] }

\* margin_data.py _analyze_margin.  Tokens for margin_trend: "no_data" (111),
\* "up_big" (145), "up_small" (148), "down_small" (151), "down_big" (154),
\* "steady" (158), "too_short" (161).
AnalyzeMargin(data) ==
    LET tr == data.trend IN
    IF ~ Truthy(data.latest) THEN [margin_trend |-> "no_data", leverage_level |-> "unknown"]
    ELSE IF Len(tr) >= 2
    THEN LET latest_balance == tr[1].margin_balance
             prev_balance   == tr[Len(tr)].margin_balance
         IN IF prev_balance > 0
            THEN [ margin_trend |->
                     IF (latest_balance - prev_balance) * 100 > 5 * prev_balance THEN "up_big"
                     ELSE IF (latest_balance - prev_balance) * 100 > 0 THEN "up_small"
                     ELSE IF (latest_balance - prev_balance) * 100 > -5 * prev_balance
                          THEN "down_small"
                     ELSE "down_big",
                   leverage_level |-> "unknown" ]
            ELSE [margin_trend |-> "steady", leverage_level |-> "unknown"]
    ELSE [margin_trend |-> "too_short", leverage_level |-> "unknown"]

\* fetch_margin_data: raw is the list of daily balances, newest first
FetchMarginData(raw) ==
    LET recs == [i \in 1..Len(raw) |-> [margin_balance |-> raw[i]]]
        r == [latest |-> IF recs # <<>> THEN recs[1] ELSE EmptyDict, trend |-> recs]
    IN [latest |-> r.latest, trend |-> r.trend, analysis |-> AnalyzeMargin(r)]

MarginNoData == <<>>
MarginRaw == { MarginNoData, <<100>>, <<110, 100>>, <<104, 100>>, <<98, 100>>,
               <<90, 100>>, <<100, 0>> }

\* northbound_data.py _analyze_northbound.  Tokens for foreign_attitude:
\* "neutral_zh" (99), "adding" (129), "reducing" (133), "flat" (136); for
\* flow_trend: "unknown" (101), "in_big" (144), "in_small" (147),
\* "out_small" (150), "out_big" (153).
AnalyzeNorthbound(data) ==
    LET individual == data.individual
        overall_flow == data.overall_flow
        change_shares == Get(individual, "change_shares", 0)
        total_net == SumSeq(IF Len(overall_flow) >= 5
                            THEN ILocFrom(overall_flow, -5) ELSE overall_flow)
    IN [ foreign_attitude |->
           IF ~ Truthy(individual) THEN "neutral_zh"
           ELSE IF change_shares > 0 THEN "adding"
           ELSE IF change_shares < 0 THEN "reducing" ELSE "flat",
         flow_trend |->
           IF overall_flow = <<>> THEN "unknown"
           ELSE IF total_net > 50 THEN "in_big"
           ELSE IF total_net > 0 THEN "in_small"
           ELSE IF total_net > -50 THEN "out_small" ELSE "out_big" ]

\* fetch_northbound_data: overall_flow holds the daily net_buy values
FetchNorthboundData(raw) ==
    [individual |-> raw.individual, overall_flow |-> raw.flow,
     analysis |-> AnalyzeNorthbound([individual |-> raw.individual,
                                     overall_flow |-> raw.flow])]

NorthboundNoData == [individual |-> EmptyDict, flow |-> <<>>]
NorthboundRaw == { NorthboundNoData,
                   [individual |-> [change_shares |-> 7], flow |-> <<60>>],
                   [individual |-> [change_shares |-> -7], flow |-> <<-60>>],
                   [individual |-> [change_shares |-> 0], flow |-> <<10, -20>>] }

\* block_trade_data.py _analyze_block_trade.  Tokens for premium_status:
\* "no_data" (103), "premium" (127), "par" (130), "discount_small" (133),
\* "discount_big" (136).  Premium rates in percent.
AnalyzeBlockTrade(data) ==
    LET trades == data.trades
        count == Len(trades)
    IN IF trades = <<>> THEN [trade_frequency |-> "none", premium_status |-> "no_data"]
       ELSE [ trade_frequency |-> IF count >= 10 THEN "frequent"
                                  ELSE IF count >= 3 THEN "many" ELSE "occasional",
              \* avg_premium = sum/count compared with 2, -2, -5
              premium_status |->
                 IF SumSeq(trades) > 2 * count THEN "premium"
                 ELSE IF SumSeq(trades) > -2 * count THEN "par"
                 ELSE IF SumSeq(trades) > -5 * count THEN "discount_small"
                 ELSE "discount_big",
              \* round(avg_premium, 2); the inputs used have whole averages
              avg_premium_rate |-> SumSeq(trades) \div count ]

\* fetch_block_trade_data: trades holds the premium_rate of each trade
FetchBlockTradeData(raw) ==
    [trades |-> raw, statistics |-> EmptyDict,
     analysis |-> AnalyzeBlockTrade([trades |-> raw])]

BlockTradeNoData == <<>>
BlockTradeRaw == { BlockTradeNoData, <<3>>, <<0, 0>>, <<-6>> }


\* shareholder_data.py _analyze_shareholder.  Tokens for chip_concentration:
\* "unknown" (84), "fast_concentrating" (111), "concentrating" (115),
\* "steady" (119), "dispersing" (123), "fast_dispersing" (127); for trend:
\* "unknown" (85), "streak_down" (135), "streak_up" (138), "mixed" (141).
AnalyzeShareholder(data) ==
    LET latest == data.latest
        history == data.history
        pct == Get(latest, "holder_change_pct", 0)
        first3 == ILoc(history, 0, 3)
    IN IF ~ Truthy(latest) THEN [chip_concentration |-> "unknown", trend |-> "unknown"]
       ELSE [ chip_concentration |->
                IF pct < -10 THEN "fast_concentrating"
                ELSE IF pct < -3 THEN "concentrating"
                ELSE IF pct < 3 THEN "steady"
                ELSE IF pct < 10 THEN "dispersing"
                ELSE "fast_dispersing",
              trend |->
                IF Len(history) >= 3
                THEN IF \A i \in 1..3 : first3[i].holder_change_pct < 0 THEN "streak_down"
                     ELSE IF \A i \in 1..3 : first3[i].holder_change_pct > 0 THEN "streak_up"
                     ELSE "mixed"
                ELSE "unknown" ]

\* fetch_shareholder_data: raw is the list of holder_change_pct per report,
\* newest first (records[:8] is kept as history)
FetchShareholderData(raw) ==
    LET recs == [i \in 1..Len(raw) |-> [holder_change_pct |-> raw[i]]]
        r == [latest |-> IF recs # <<>> THEN recs[1] ELSE EmptyDict,
              history |-> ILoc(recs, 0, 8)]
    IN [latest |-> r.latest, history |-> r.history, analysis |-> AnalyzeShareholder(r)]

ShareholderNoData == <<>>
ShareholderRaw == { ShareholderNoData, <<-12, -1, -1>>, <<-5>>, <<0>>, <<5, 1, 1>>, <<12>> }

\* institution_data.py _analyze_institution.  Tokens for holding_trend:
\* "unknown" (148), "up_big" (178), "up_small" (181), "down_big" (184),
\* "down_small" (187), "flat" (190).
AnalyzeInstitution(data) ==
    LET holding == data.holding
        inst_count == Get(holding, "institution_count", 0)
        inst_change == Get(holding, "institution_change", 0)
    IN IF ~ Truthy(holding)
       THEN [institution_interest |-> "unknown", holding_trend |-> "unknown"]
       ELSE [ institution_interest |->
                IF inst_count >= 50 THEN "high"
                ELSE IF inst_count >= 10 THEN "medium"
                ELSE IF inst_count > 0 THEN "low" ELSE "none",
              holding_trend |->
                IF inst_change > 5 THEN "up_big"
                ELSE IF inst_change > 0 THEN "up_small"
                ELSE IF inst_change < -5 THEN "down_big"
                ELSE IF inst_change < 0 THEN "down_small"
                ELSE "flat" ]

\* fetch_institution_data
FetchInstitutionData(raw) ==
    [holding |-> raw, research |-> <<>>,
     analysis |-> AnalyzeInstitution([holding |-> raw, research |-> <<>>])]

InstitutionNoData == EmptyDict
InstitutionRaw ==
    { InstitutionNoData } \cup
    { [institution_count |-> 20, institution_change |-> c] : c \in {6, 1, -6, -1, 0} }

\* restricted_shares_data.py _analyze_restricted.  Tokens for pressure_level:
\* "none_zh" (96), "high_zh" (126), "medium_zh" (130), "low_zh" (134).
\* A release is [float_ratio, in_future, days_until]: ratio in percent,
\* in_future says release_date > now, days_until is the whole number of days
\* to the release (0 when it is less than a day away).
AnalyzeRestricted(data) ==
    LET schedule == data.schedule
        upcoming == data.upcoming
        float_ratio == Get(upcoming, "float_ratio", 0)
        days_until == Get(upcoming, "days_until", -1)
    IN IF schedule = <<>> THEN [pressure_level |-> "none_zh"]
       ELSE IF Truthy(upcoming) /\ days_until > 0
       THEN [ pressure_level |->
                IF float_ratio > 10 THEN "high_zh"
                ELSE IF float_ratio > 3 THEN "medium_zh"
                ELSE IF float_ratio > 0 THEN "low_zh"
                ELSE "none_zh" ]
       ELSE [pressure_level |-> "none_zh"]

\* fetch_restricted_shares_data: schedule is the list of releases in date
\* order; the first one in the future becomes upcoming
FetchRestrictedSharesData(raw) ==
    LET future == SelectSeq(raw, LAMBDA r : r.in_future)
        r == [schedule |-> raw,
              upcoming |-> IF future # <<>> THEN future[1] ELSE EmptyDict]
    IN [schedule |-> r.schedule, upcoming |-> r.upcoming,
        analysis |-> AnalyzeRestricted(r)]

RestrictedNoData == <<>>
RestrictedRaw ==
    { RestrictedNoData,
      << [float_ratio |-> 12, in_future |-> FALSE, days_until |-> -40] >> } \cup
    { << [float_ratio |-> f, in_future |-> TRUE, days_until |-> 20] >> : f \in {12, 5, 1} }

\* industry_compare_data.py and dividend_data.py: analysis labels only
\* ("unknown": industry_compare_data.py 167-168, dividend_data.py 102-103)
FetchIndustryCompareData(raw) ==
    [comparison |-> raw,
     analysis |-> IF ~ Truthy(raw)
                  THEN [valuation_position |-> "unknown", industry_rank |-> "unknown"]
                  ELSE [valuation_position |-> "known", industry_rank |-> "known"]]

IndustryNoData == EmptyDict
IndustryRaw == { IndustryNoData, [total_peers |-> 10] }

FetchDividendData(raw) ==
    [detail |-> raw, history |-> <<>>,
     analysis |-> IF raw = <<>>
                  THEN [dividend_stability |-> "unknown", dividend_yield_level |-> "unknown"]
                  ELSE [dividend_stability |-> "known", dividend_yield_level |-> "known"]]

DividendNoData == <<>>
DividendRaw == { DividendNoData, <<1>> }


--------------------------------------------------------------------------
(* stock_analyzer.py : analyze_stock, risk assessment (step 16)            *)
(* Tokens: technical trend "uptrend" (177), "downtrend" (179),             *)
(* "consolidation" (181); valuation "low_valuation" (213),                 *)
(* "high_valuation" (215), "fair_valuation" (217); risk level "risk_low",  *)
(* "risk_medium", "risk_high" (647-649).                                   *)

\* "shang sheng" in trend / "xia jiang" in trend (substring tests, 397-400
\* and 441-444)
HasUp(t) == t = "uptrend"
HasDown(t) == t = "downtrend"

\* 370-422, the variant in which only three high votes make the tier high
RiskAssessment_Unanimous(res) ==
    LET tech == res.technical_analysis
        fund == res.fundamental_analysis
        rsi == Get(Get(tech, "indicators", EmptyDict), "rsi6", 0)
        pe  == Get(Get(fund, "valuation", EmptyDict), "pe_ttm", 0)
        tr  == Get(tech, "trend", "")
        volatility == IF Truthy(tech) /\ rsi # 0 /\ (rsi > 80 \/ rsi < 20)
                      THEN "high" ELSE "medium"
        valuation_risk == IF Truthy(fund) /\ pe # 0 /\ pe > 50 THEN "high"
                          ELSE IF Truthy(fund) /\ pe # 0 /\ pe < 10 THEN "low"
                          ELSE "medium"
        trend_risk == IF Truthy(tech) /\ HasDown(tr) THEN "high"
                      ELSE IF Truthy(tech) /\ HasUp(tr) THEN "low"
                      ELSE "medium"
        risk_levels == <<volatility, valuation_risk, trend_risk>>
        high_count == Cardinality({i \in 1..3 : risk_levels[i] = "high"})
        low_count  == Cardinality({i \in 1..3 : risk_levels[i] = "low"})
    IN [ overall_risk |-> IF high_count >= 3 THEN "high"
                          ELSE IF low_count >= 2 THEN "low" ELSE "medium",
         volatility_risk |-> volatility,
         valuation_risk  |-> valuation_risk,
         trend_risk      |-> trend_risk ]

\* x and (x > 80 or x < 20): None and 0 are falsy; None is written 0
RiskAssessment(res) ==
    LET tech == res.technical_analysis
        fund == res.fundamental_analysis
        rsi == Get(Get(tech, "indicators", EmptyDict), "rsi6", 0)
        pe  == Get(Get(fund, "valuation", EmptyDict), "pe_ttm", 0)
        tr  == Get(tech, "trend", "")
        volatility == IF Truthy(tech) /\ rsi # 0 /\ (rsi > 80 \/ rsi < 20)
                      THEN "high" ELSE "medium"
        valuation_risk == IF Truthy(fund) /\ pe # 0 /\ pe > 50 THEN "high"
                          ELSE IF Truthy(fund) /\ pe # 0 /\ pe < 10 THEN "low"
                          ELSE "medium"
        trend_risk == IF Truthy(tech) /\ HasDown(tr) THEN "high"
                      ELSE IF Truthy(tech) /\ HasUp(tr) THEN "low"
                      ELSE "medium"
        risk_levels == <<volatility, valuation_risk, trend_risk>>
        high_count == Cardinality({i \in 1..3 : risk_levels[i] = "high"})
        low_count  == Cardinality({i \in 1..3 : risk_levels[i] = "low"})
    IN [ overall_risk |-> IF high_count >= 2 THEN "high"
                          ELSE IF low_count >= 2 THEN "low" ELSE "medium",
         volatility_risk |-> volatility,
         valuation_risk  |-> valuation_risk,
         trend_risk      |-> trend_risk ]


--------------------------------------------------------------------------
(* stock_analyzer.py : analyze_stock, prediction (427-666)                 *)
(* A nudge is [delta, factor]: delta in hundredths (0 for a factor that    *)
(* only adds its label), factor an ASCII token for the label appended to   *)
(* key_factors.                                                            *)

Nudge(delta, factor) == [delta |-> delta, factor |-> factor]

\* if up: ... elif down: ...
IfElif(up, upNudge, down, downNudge) ==
    IF up THEN <<upNudge>> ELSE IF down THEN <<downNudge>> ELSE <<>>

\* 436-454
TechNudges(res) ==
    LET tech == res.technical_analysis
        tr == Get(tech, "trend", "")
        overall_signal == Get(Get(tech, "signals", EmptyDict), "overall", "neutral")
    IN IF ~ Truthy(tech) THEN <<>>
       ELSE IfElif(HasUp(tr), Nudge(20, "tech_trend_up"),
                   HasDown(tr), Nudge(-20, "tech_trend_down"))
            \o IfElif(overall_signal \in {"buy", "strong_buy"}, Nudge(15, "tech_buy_signal"),
                      overall_signal \in {"sell", "strong_sell"}, Nudge(-15, "tech_sell_signal"))

\* 457-477
FundNudges(res) ==
    LET fund == res.fundamental_analysis
        analysis == Get(fund, "analysis", EmptyDict)
        profitability == Get(analysis, "profitability_level", "moderate")
        growth == Get(analysis, "growth_level", "moderate")
        valuation == Get(analysis, "valuation_level", "fair_valuation")
    IN IF ~ Truthy(fund) THEN <<>>
       ELSE IfElif(profitability = "strong", Nudge(10, "profitability_strong"), FALSE, Nudge(0, ""))
            \o IfElif(growth = "high", Nudge(10, "growth_high"), FALSE, Nudge(0, ""))
            \o IfElif(valuation = "low_valuation", Nudge(10, "valuation_low"),
                      valuation = "high_valuation", Nudge(-10, "valuation_high"))

\* 480-489
FlowNudges(res) ==
    LET flow == res.fund_flow_analysis
        main_inflow == Get(flow, "main_inflow_5d", 0)
    IN IF ~ Truthy(flow) THEN <<>>
       ELSE IfElif(main_inflow > 0, Nudge(10, "main_inflow"),
                   main_inflow < 0, Nudge(-10, "main_outflow"))

\* 492-529, the variant in which the chip nudges need a technical section
ChipNudges_NeedsTech(res) ==
    LET chip == res.chip_analysis
        chip_assessment == Get(chip, "assessment", EmptyDict)
        chip_trend == Get(chip, "trend", EmptyDict)
        chip_status == Get(chip_assessment, "chip_status", "neutral")
        conc_trend == Get(chip_trend, "concentration_trend", "stable")
        winner_rate == Get(Get(chip, "latest", EmptyDict), "winner_rate", 500)
        inst_signal == Get(chip_trend, "institutional_signal", "neutral")
    IN IF ~ Truthy(chip) \/ ~ Truthy(res.technical_analysis) THEN <<>>
       ELSE IfElif(chip_status \in {"highly_concentrated", "concentrated"},
                   Nudge(5, "chip_concentrated"),
                   chip_status = "dispersed", Nudge(-5, "chip_dispersed"))
            \o IfElif(conc_trend = "concentrating", Nudge(5, "chip_concentrating"),
                      conc_trend = "dispersing", Nudge(-5, "chip_dispersing"))
            \o IfElif(winner_rate > 900, Nudge(-5, "winner_pressure"),
                      winner_rate < 100, Nudge(0, "trapped_heavy"))
            \o IfElif(inst_signal = "accumulating", Nudge(5, "chip_accumulating"),
                      inst_signal = "distributing", Nudge(-5, "chip_distributing"))

\* 492-529; winner_rate in 1/1000
ChipNudges(res) ==
    LET chip == res.chip_analysis
        chip_assessment == Get(chip, "assessment", EmptyDict)
        chip_trend == Get(chip, "trend", EmptyDict)
        chip_status == Get(chip_assessment, "chip_status", "neutral")
        conc_trend == Get(chip_trend, "concentration_trend", "stable")
        winner_rate == Get(Get(chip, "latest", EmptyDict), "winner_rate", 500)
        inst_signal == Get(chip_trend, "institutional_signal", "neutral")
    IN IF ~ Truthy(chip) THEN <<>>
       ELSE IfElif(chip_status \in {"highly_concentrated", "concentrated"},
                   Nudge(5, "chip_concentrated"),
                   chip_status = "dispersed", Nudge(-5, "chip_dispersed"))
            \o IfElif(conc_trend = "concentrating", Nudge(5, "chip_concentrating"),
                      conc_trend = "dispersing", Nudge(-5, "chip_dispersing"))
            \o IfElif(winner_rate > 900, Nudge(-5, "winner_pressure"),
                      winner_rate < 100, Nudge(0, "trapped_heavy"))
            \o IfElif(inst_signal = "accumulating", Nudge(5, "chip_accumulating"),
                      inst_signal = "distributing", Nudge(-5, "chip_distributing"))

\* 534-543: substring tests on institution_attitude
LhbNudges(res) ==
    LET lhb == res.lhb_analysis
        inst_att == Get(Get(lhb, "analysis", EmptyDict), "institution_attitude", "neutral_zh")
    IN IF ~ Truthy(lhb) THEN <<>>
       ELSE IfElif(inst_att = "inst_net_buy", Nudge(5, "lhb_net_buy"),
                   inst_att = "inst_net_sell", Nudge(-5, "lhb_net_sell"))

\* variant: the prediction tests the labels the margin analyzer writes
MarginNudges_ReadsAnalyzer(res) ==
    LET margin == res.margin_analysis
        margin_trend == Get(Get(margin, "analysis", EmptyDict), "margin_trend", "stable")
    IN IF ~ Truthy(margin) THEN <<>>
       ELSE IfElif(margin_trend = "up_big", Nudge(5, "margin_up"),
                   margin_trend = "down_big", Nudge(-5, "margin_down"))

\* 546-555
MarginNudges(res) ==
    LET margin == res.margin_analysis
        margin_trend == Get(Get(margin, "analysis", EmptyDict), "margin_trend", "stable")
    IN IF ~ Truthy(margin) THEN <<>>
       ELSE IfElif(margin_trend = "increasing", Nudge(5, "margin_up"),
                   margin_trend = "decreasing", Nudge(-5, "margin_down"))

\* 558-567
NorthboundNudges(res) ==
    LET nb == res.northbound_analysis
        nb_direction == Get(Get(nb, "analysis", EmptyDict), "direction", "neutral")
    IN IF ~ Truthy(nb) THEN <<>>
       ELSE IfElif(nb_direction = "inflow", Nudge(5, "northbound_inflow"),
                   nb_direction = "outflow", Nudge(-5, "northbound_outflow"))

\* 570-580
BlockTradeNudges(res) ==
    LET bt == res.block_trade_analysis
        bt_analysis == Get(bt, "analysis", EmptyDict)
        bt_premium == Get(bt_analysis, "avg_premium", 0)
    IN IF ~ Truthy(bt) \/ ~ (Get(bt_analysis, "records_count", 0) > 0) THEN <<>>
       ELSE IfElif(bt_premium > 0, Nudge(3, "block_premium"),
                   bt_premium < -5, Nudge(-3, "block_discount"))

\* 583-592
ShareholderNudges(res) ==
    LET sh == res.shareholder_analysis
        sh_trend == Get(Get(sh, "analysis", EmptyDict), "shareholder_trend", "stable")
    IN IF ~ Truthy(sh) THEN <<>>
       ELSE IfElif(sh_trend = "decreasing", Nudge(5, "holders_down"),
                   sh_trend = "increasing", Nudge(-3, "holders_up"))

\* 595-604
RestrictedNudges(res) ==
    LET rs == res.restricted_shares_analysis
        rs_pressure == Get(Get(rs, "analysis", EmptyDict), "pressure_level", "low")
    IN IF ~ Truthy(rs) THEN <<>>
       ELSE IfElif(rs_pressure = "high", Nudge(-5, "unlock_large"),
                   rs_pressure = "medium", Nudge(-2, "unlock_some"))

\* 607-616
InstitutionNudges(res) ==
    LET inst == res.institution_analysis
        inst_trend == Get(Get(inst, "analysis", EmptyDict), "holding_trend", "stable")
    IN IF ~ Truthy(inst) THEN <<>>
       ELSE IfElif(inst_trend = "increasing", Nudge(5, "inst_holding_up"),
                   inst_trend = "decreasing", Nudge(-3, "inst_holding_down"))

\* the nudges that fire, in the order the code applies them
Nudges(res) ==
    TechNudges(res) \o FundNudges(res) \o FlowNudges(res) \o ChipNudges(res)
    \o LhbNudges(res) \o MarginNudges(res) \o NorthboundNudges(res)
    \o BlockTradeNudges(res) \o ShareholderNudges(res)
    \o RestrictedNudges(res) \o InstitutionNudges(res)


\* trend_probability after the nudges ns were applied to p, one
\* "+= 0.x" or "-= 0.x" on a double each
RECURSIVE ApplyNudges(_, _)
ApplyNudges(p, ns) ==
    IF ns = <<>> THEN p
    ELSE LET n == Head(ns)
             q == IF n.delta > 0 THEN FAdd(p, FLit(n.delta))
                  ELSE IF n.delta < 0 THEN FSub(p, FLit(-n.delta))
                  ELSE p
         IN ApplyNudges(q, Tail(ns))

\* key_factors: the labels in the order they were appended
KeyFactors(ns) == [i \in 1..Len(ns) |-> ns[i].factor]

\* 429, the variant that starts above neutral
Baseline_Optimistic == FLit(55)

\* trend_probability = 0.5 (429)
Baseline == FLit(50)

\* 619-624
\* the variant with the two directions exchanged
PredictedTrend_Exchanged(p) ==
    IF FGt(p, FLit(60)) THEN "down"
    ELSE IF FLt(p, FLit(40)) THEN "up"
    ELSE "sideways"

PredictedTrend(p) ==
    IF FGt(p, FLit(60)) THEN "up"
    ELSE IF FLt(p, FLit(40)) THEN "down"
    ELSE "sideways"

\* round(current_price * factor, 2) on a price in cents, factor = pct / 100:
\* the nearest cent; when the exact product is half a cent the double
\* product lies on one side of it and half_up says on which
TargetPrice(current_price, pct, half_up) ==
    LET x == current_price * pct
        q == x \div 100
        r == x % 100
    IN IF r > 50 \/ (r = 50 /\ half_up) THEN q + 1 ELSE q

\* 627-641: <<>> stands for None
TargetBand(res, predicted_trend) ==
    LET current_price == IF Truthy(res.basic_info)
                         THEN Get(res.basic_info, "current_price", 0) ELSE 0
    IN IF ~ (current_price > 0) THEN [high |-> <<>>, low |-> <<>>]
       ELSE IF predicted_trend = "up"
       THEN [high |-> <<TargetPrice(current_price, 115, halves.high)>>,
             low  |-> <<TargetPrice(current_price, 105, halves.low)>>]
       ELSE IF predicted_trend = "down"
       THEN [high |-> <<TargetPrice(current_price, 98, halves.high)>>,
             low  |-> <<TargetPrice(current_price, 85, halves.low)>>]
       ELSE [high |-> <<TargetPrice(current_price, 108, halves.high)>>,
             low  |-> <<TargetPrice(current_price, 95, halves.low)>>]

\* 644-654
RiskLevel(res) ==
    LET overall == Get(res.risk_assessment, "overall_risk", "medium")
    IN IF ~ Truthy(res.risk_assessment) THEN "risk_medium"
       ELSE IF overall = "low" THEN "risk_low"
       ELSE IF overall = "high" THEN "risk_high"
       ELSE "risk_medium"

\* _get_prediction_recommendation (684-703); tokens for the sentences at
\* 689, 690, 692, 694, 697, 699, 701, 703
GetPredictionRecommendation(tr, probability, risk_level) ==
    IF tr = "up"
    THEN IF FGt(probability, FLit(70))
         THEN IF risk_level = "risk_high" THEN "buy_cautiously" ELSE "buy"
         ELSE IF FGt(probability, FLit(50)) THEN "watch_for_entry"
         ELSE "wait"
    ELSE IF tr = "down"
    THEN IF FGt(probability, FLit(70)) THEN "sell_or_wait"
         ELSE IF FGt(probability, FLit(50)) THEN "reduce_or_wait"
         ELSE "wait"
    ELSE "wait_for_trend"

\* the variant that clamps the sum to [0, 1] before it is classified
TrendProbability_Clamped(res) ==
    LET p == ApplyNudges(Baseline, Nudges(res))
    IN IF FGt(p, FLit(100)) THEN FLit(100)
       ELSE IF FLt(p, FLit(0)) THEN FLit(0)
       ELSE p

\* the variant that goes on from the value the local was left at
TrendProbability_CarriedOver(res) == ApplyNudges(trend_probability, Nudges(res))

\* the local trend_probability at line 619
TrendProbability(res) == ApplyNudges(Baseline, Nudges(res))

\* result["prediction"] (656-666); probability in hundredths
Prediction(res) ==
    LET p == TrendProbability(res)
        predicted_trend == PredictedTrend(p)
        band == TargetBand(res, predicted_trend)
        key_factors == KeyFactors(Nudges(res))
        risk_level == RiskLevel(res)
    IN [ trend |-> predicted_trend,
         probability |-> FRound2(p),
         target_price_high |-> band.high,
         target_price_low  |-> band.low,
         risk_level |-> risk_level,
         key_factors |-> IF key_factors # <<>> THEN key_factors
                         ELSE <<"overall_analysis">>,
         recommendation |->
             GetPredictionRecommendation(predicted_trend, p, risk_level) ]


--------------------------------------------------------------------------
(* stock_analyzer.py : analyze_stock, steps 1-15 and the run as a whole    *)

\* steps whose callee may return data in one run
MaxInformative == 2

\* what the providers of the data modules return in the runs explored
LhbSeen == { LhbNoData, [records |-> <<5, -2>>, inst |-> [net_buy |-> 3]],
             [records |-> <<-5>>, inst |-> [net_buy |-> -3]] }
MarginSeen == { MarginNoData, <<110, 100>>, <<90, 100>> }
NorthboundSeen == { NorthboundNoData,
                    [individual |-> [change_shares |-> 7], flow |-> <<60>>],
                    [individual |-> [change_shares |-> -7], flow |-> <<-60>>] }
BlockTradeSeen == { BlockTradeNoData, <<3>>, <<-6>> }
ShareholderSeen == { ShareholderNoData, <<-12, -1, -1>>, <<12>> }
InstitutionSeen == { InstitutionNoData } \cup
    { [institution_count |-> 20, institution_change |-> c] : c \in {6, -6} }
RestrictedSeen == { RestrictedNoData } \cup
    { << [float_ratio |-> f, in_future |-> TRUE, days_until |-> 20] >> : f \in {12, 5} }

\* what the callees outside this package return: the quote (price in
\* cents), the last kline row with its indicators and the overall signal,
\* the fundamental levels, the capital flow, the news count
Quotes == { [name |-> "n", price |-> 1000], [name |-> "n"] }
Klines == { [close |-> 10, ma20 |-> m[1], ma60 |-> m[2], rsi6 |-> 50, overall |-> m[3]] :
            m \in { <<9, 8, "buy">>, <<9, 8, "neutral">>, <<11, 12, "strong_sell">>,
                    <<11, 12, "neutral">>, <<11, 8, "neutral">> } }
Fundamentals == { [valuation_level |-> f[1], profitability_level |-> f[2],
                   growth_level |-> f[3], pe_ttm |-> 20] :
                  f \in { <<"undervalued", "strong", "high">>,
                          <<"undervalued", "moderate", "moderate">>,
                          <<"overvalued", "moderate", "moderate">>,
                          <<"fair", "strong", "moderate">>,
                          <<"fair", "moderate", "high">>,
                          <<"fair", "moderate", "moderate">> } }
CapitalFlows == { [main_inflow |-> 5], [main_inflow |-> -5], EmptyDict }
NewsCounts == { 3 }

\* result as built at 103-127
EmptyResult ==
    [ basic_info |-> EmptyDict, technical_analysis |-> EmptyDict,
      fundamental_analysis |-> EmptyDict, fund_flow_analysis |-> EmptyDict,
      news_analysis |-> EmptyDict, chip_analysis |-> EmptyDict,
      lhb_analysis |-> EmptyDict, margin_analysis |-> EmptyDict,
      northbound_analysis |-> EmptyDict, block_trade_analysis |-> EmptyDict,
      shareholder_analysis |-> EmptyDict, institution_analysis |-> EmptyDict,
      restricted_shares_analysis |-> EmptyDict,
      industry_compare_analysis |-> EmptyDict, dividend_analysis |-> EmptyDict,
      risk_assessment |-> EmptyDict, prediction |-> EmptyDict ]

\* 133-145
BasicInfo(realtime_data) ==
    [ name |-> Get(realtime_data, "name", ""),
      current_price |-> Get(realtime_data, "price", 0) ]

\* 172-195
TechnicalSection(k) ==
    [ current_price |-> k.close,
      trend |-> IF k.close > k.ma20 /\ k.ma20 > k.ma60 THEN "uptrend"
                ELSE IF k.close < k.ma20 /\ k.ma20 < k.ma60 THEN "downtrend"
                ELSE "consolidation",
      signals |-> [overall |-> k.overall],
      indicators |-> [ma20 |-> k.ma20, ma60 |-> k.ma60, rsi6 |-> k.rsi6] ]

\* 211-229
FundamentalSection(f) ==
    [ valuation |-> [pe_ttm |-> f.pe_ttm],
      analysis |-> [ valuation_level |->
                        IF f.valuation_level = "undervalued" THEN "low_valuation"
                        ELSE IF f.valuation_level = "overvalued" THEN "high_valuation"
                        ELSE "fair_valuation",
                     profitability_level |-> f.profitability_level,
                     growth_level |-> f.growth_level ] ]

\* 238-242
FundFlowSection(capital_flow) ==
    [ recent_flow |-> capital_flow,
      main_inflow_5d |-> Get(capital_flow, "main_inflow", 0) ]

\* 254-259 and the shape written at 264-269 when the fetch raised
NewsSection(n) == [news_count |-> n, summary |-> "summary"]
NewsFailed == [news_count |-> 0, summary |-> "news_failed", error |-> "e"]

\* the shape written at 283-291 when analyze_chip_distribution raised
ChipFailed ==
    [ latest |-> EmptyDict, trend |-> EmptyDict,
      assessment |-> [chip_status |-> "unknown", summary |-> "chip_failed"],
      error |-> "e" ]


\* _empty_result() of each data module, returned when the module has no
\* provider library.  Tokens: "neutral_zh", "no_data", "unknown",
\* "none_zh" for the literals at the lines named in each definition.
LhbEmptyResult ==
    [ records |-> <<>>, institution_summary |-> EmptyDict,
      analysis |-> [lhb_frequency |-> "none", institution_attitude |-> "neutral_zh"] ]
MarginEmptyResult ==
    [ latest |-> EmptyDict, trend |-> <<>>,
      analysis |-> [margin_trend |-> "no_data", leverage_level |-> "unknown"] ]
NorthboundEmptyResult ==
    [ individual |-> EmptyDict, overall_flow |-> <<>>,
      analysis |-> [foreign_attitude |-> "neutral_zh", hold_level |-> "unknown",
                    flow_trend |-> "unknown"] ]
BlockTradeEmptyResult ==
    [ trades |-> <<>>, statistics |-> EmptyDict,
      analysis |-> [trade_frequency |-> "none", premium_status |-> "no_data"] ]
ShareholderEmptyResult ==
    [ latest |-> EmptyDict, history |-> <<>>,
      analysis |-> [chip_concentration |-> "unknown", trend |-> "unknown"] ]
InstitutionEmptyResult ==
    [ holding |-> EmptyDict, research |-> <<>>,
      analysis |-> [institution_interest |-> "unknown", holding_trend |-> "unknown"] ]
RestrictedEmptyResult ==
    [ schedule |-> <<>>, upcoming |-> EmptyDict,
      analysis |-> [pressure_level |-> "none_zh", upcoming_pressure |-> "none_soon"] ]

AggInit ==
    /\ result = EmptyResult
    /\ pc = "basic_info"
    /\ trend_probability = Baseline
    /\ informative = 0
    /\ outage \in {"raises", "empty"}
    /\ halves = [high |-> FALSE, low |-> FALSE]
    /\ df = <<>>
    /\ trend = EmptyDict
    /\ cpc = "idle"

\* one answer of each callee, for the runs in which any subset of the
\* steps fails
Samples ==
    [ quote |-> [name |-> "n", price |-> 1000],
      kline |-> [close |-> 10, ma20 |-> 9, ma60 |-> 8, rsi6 |-> 50, overall |-> "buy"],
      fundamental |-> [valuation_level |-> "overvalued", profitability_level |-> "moderate",
                       growth_level |-> "moderate", pe_ttm |-> 20],
      capital_flow |-> [main_inflow |-> -5],
      news |-> 3,
      chip |-> BuildSeries(12,
                 [win |-> 500, cost |-> 1000, c90 |-> 100, c70 |-> 100],
                 [win |-> 500, cost |-> 1000, c90 |-> 94, c70 |-> 100]),
      lhb |-> [records |-> <<5, -2>>, inst |-> [net_buy |-> 3]],
      margin |-> <<110, 100>>,
      northbound |-> [individual |-> [change_shares |-> 7], flow |-> <<60>>],
      block_trade |-> <<3>>,
      shareholder |-> <<12>>,
      institution |-> [institution_count |-> 20, institution_change |-> 6],
      restricted |-> << [float_ratio |-> 12, in_future |-> TRUE, days_until |-> 20] >>,
      industry |-> [total_peers |-> 10],
      dividend |-> <<1>> ]

\* the answers a callee may give in this run
Offered(S, sample) == IF outage = "sampled" THEN {sample} ELSE S

\* the callee of step `step` returned and the section `key` was written
Returned(step, nxt, key, value) ==
    /\ pc = step
    /\ informative < MaxInformative \/ outage = "sampled"
    /\ result' = [result EXCEPT ![key] = value]
    /\ pc' = nxt
    /\ informative' = informative + 1
    /\ UNCHANGED <<trend_probability, outage, df, trend, cpc, halves>>

\* the variant in which a failing step ends the run
Failed_Aborts(step, nxt, key, value) ==
    /\ pc = step
    /\ result' = [result EXCEPT ![key] = value]
    /\ pc' = "raised"
    /\ UNCHANGED <<trend_probability, informative, outage, df, trend, cpc, halves>>

\* the callee of step `step` failed and the section `key` ends as `value`
Failed(step, nxt, key, value) ==
    /\ pc = step
    /\ result' = [result EXCEPT ![key] = value]
    /\ pc' = nxt
    /\ UNCHANGED <<trend_probability, informative, outage, df, trend, cpc, halves>>


\* 98-99: without the provider library analyze_stock raises DataSourceError
\* before it builds a result
Guard_NoProvider ==
    /\ pc = "basic_info"
    /\ pc' = "raised"
    /\ UNCHANGED <<result, trend_probability, informative, outage, df, trend, cpc, halves>>

\* 130-147: an exception leaves basic_info as it was
Step1_BasicInfo ==
    \/ \E q \in Offered(Quotes, Samples.quote) : Returned("basic_info", "technical", "basic_info", BasicInfo(q))
    \/ Failed("basic_info", "technical", "basic_info", result.basic_info)

\* 150-198: an empty kline frame or an exception leaves the section as it was
Step2_Technical ==
    \/ \E k \in Offered(Klines, Samples.kline) :
          Returned("technical", "fundamental", "technical_analysis", TechnicalSection(k))
    \/ Failed("technical", "fundamental", "technical_analysis", result.technical_analysis)

\* 201-231
Step3_Fundamental ==
    \/ \E f \in Offered(Fundamentals, Samples.fundamental) :
          Returned("fundamental", "fund_flow", "fundamental_analysis", FundamentalSection(f))
    \/ Failed("fundamental", "fund_flow", "fundamental_analysis", result.fundamental_analysis)

\* 234-244
Step4_FundFlow ==
    \/ \E c \in Offered(CapitalFlows, Samples.capital_flow) :
          Returned("fund_flow", "news", "fund_flow_analysis", FundFlowSection(c))
    \/ Failed("fund_flow", "news", "fund_flow_analysis", result.fund_flow_analysis)

\* 247-269
Step5_News ==
    \/ \E n \in Offered(NewsCounts, Samples.news) : Returned("news", "chip", "news_analysis", NewsSection(n))
    \/ Failed("news", "chip", "news_analysis", NewsFailed)

\* 272-291: analyze_chip_distribution returns its result, returns
\* _empty_chip_result (the fetch failed, chip_analysis.py 112-114), or raises
Step6_Chip ==
    LET current_price == Get(result.basic_info, "current_price", 0) IN
    \/ \E d \in Offered(AggChipInputs, Samples.chip) :
          Returned("chip", "lhb", "chip_analysis", ChipResult(d, current_price))
    \/ outage = "empty" /\ Failed("chip", "lhb", "chip_analysis", EmptyChipResult)
    \/ outage # "empty" /\ Failed("chip", "lhb", "chip_analysis", ChipFailed)

\* 297-301: the module returns its result (built from nothing when its
\* provider call failed), or an exception leaves the section as it was
Step7_Lhb ==
    \/ \E raw \in Offered(LhbSeen, Samples.lhb) : Returned("lhb", "margin", "lhb_analysis", FetchLhbData(raw))
    \/ outage = "empty" /\ Failed("lhb", "margin", "lhb_analysis", FetchLhbData(LhbNoData))
    \/ outage # "empty" /\ Failed("lhb", "margin", "lhb_analysis", result.lhb_analysis)

\* 305-309: the module returns its result (built from nothing when its
\* provider call failed), or an exception leaves the section as it was
Step8_Margin ==
    \/ \E raw \in Offered(MarginSeen, Samples.margin) : Returned("margin", "northbound", "margin_analysis", FetchMarginData(raw))
    \/ outage = "empty" /\ Failed("margin", "northbound", "margin_analysis", FetchMarginData(MarginNoData))
    \/ outage # "empty" /\ Failed("margin", "northbound", "margin_analysis", result.margin_analysis)

\* 313-317: the module returns its result (built from nothing when its
\* provider call failed), or an exception leaves the section as it was
Step9_Northbound ==
    \/ \E raw \in Offered(NorthboundSeen, Samples.northbound) : Returned("northbound", "block_trade", "northbound_analysis", FetchNorthboundData(raw))
    \/ outage = "empty" /\ Failed("northbound", "block_trade", "northbound_analysis", FetchNorthboundData(NorthboundNoData))
    \/ outage # "empty" /\ Failed("northbound", "block_trade", "northbound_analysis", result.northbound_analysis)

\* 321-325: the module returns its result (built from nothing when its
\* provider call failed), or an exception leaves the section as it was
Step10_BlockTrade ==
    \/ \E raw \in Offered(BlockTradeSeen, Samples.block_trade) : Returned("block_trade", "shareholder", "block_trade_analysis", FetchBlockTradeData(raw))
    \/ outage = "empty" /\ Failed("block_trade", "shareholder", "block_trade_analysis", FetchBlockTradeData(BlockTradeNoData))
    \/ outage # "empty" /\ Failed("block_trade", "shareholder", "block_trade_analysis", result.block_trade_analysis)

\* 329-333: the module returns its result (built from nothing when its
\* provider call failed), or an exception leaves the section as it was
Step11_Shareholder ==
    \/ \E raw \in Offered(ShareholderSeen, Samples.shareholder) : Returned("shareholder", "institution", "shareholder_analysis", FetchShareholderData(raw))
    \/ outage = "empty" /\ Failed("shareholder", "institution", "shareholder_analysis", FetchShareholderData(ShareholderNoData))
    \/ outage # "empty" /\ Failed("shareholder", "institution", "shareholder_analysis", result.shareholder_analysis)

\* 337-341: the module returns its result (built from nothing when its
\* provider call failed), or an exception leaves the section as it was
Step12_Institution ==
    \/ \E raw \in Offered(InstitutionSeen, Samples.institution) : Returned("institution", "restricted", "institution_analysis", FetchInstitutionData(raw))
    \/ outage = "empty" /\ Failed("institution", "restricted", "institution_analysis", FetchInstitutionData(InstitutionNoData))
    \/ outage # "empty" /\ Failed("institution", "restricted", "institution_analysis", result.institution_analysis)

\* 345-349: the module returns its result (built from nothing when its
\* provider call failed), or an exception leaves the section as it was
Step13_Restricted ==
    \/ \E raw \in Offered(RestrictedSeen, Samples.restricted) : Returned("restricted", "industry", "restricted_shares_analysis", FetchRestrictedSharesData(raw))
    \/ outage = "empty" /\ Failed("restricted", "industry", "restricted_shares_analysis", FetchRestrictedSharesData(RestrictedNoData))
    \/ outage # "empty" /\ Failed("restricted", "industry", "restricted_shares_analysis", result.restricted_shares_analysis)

\* 353-357: the module returns its result (built from nothing when its
\* provider call failed), or an exception leaves the section as it was
Step14_Industry ==
    \/ \E raw \in Offered(IndustryRaw, Samples.industry) : Returned("industry", "dividend", "industry_compare_analysis", FetchIndustryCompareData(raw))
    \/ outage = "empty" /\ Failed("industry", "dividend", "industry_compare_analysis", FetchIndustryCompareData(IndustryNoData))
    \/ outage # "empty" /\ Failed("industry", "dividend", "industry_compare_analysis", result.industry_compare_analysis)

\* 361-365: the module returns its result (built from nothing when its
\* provider call failed), or an exception leaves the section as it was
Step15_Dividend ==
    \/ \E raw \in Offered(DividendRaw, Samples.dividend) : Returned("dividend", "risk", "dividend_analysis", FetchDividendData(raw))
    \/ outage = "empty" /\ Failed("dividend", "risk", "dividend_analysis", FetchDividendData(DividendNoData))
    \/ outage # "empty" /\ Failed("dividend", "risk", "dividend_analysis", result.dividend_analysis)

\* 370-424
Step16_Risk ==
    /\ pc = "risk"
    /\ result' = [result EXCEPT !.risk_assessment = RiskAssessment(result)]
    /\ pc' = "prediction"
    /\ UNCHANGED <<trend_probability, informative, outage, df, trend, cpc, halves>>

\* 427-666
Step17_Prediction ==
    /\ pc = "prediction"
    /\ trend_probability' = TrendProbability(result)
    /\ result' = [result EXCEPT !.prediction = Prediction(result)]
    /\ pc' = "done"
    /\ UNCHANGED <<informative, outage, df, trend, cpc, halves>>

AggNext ==
    \/ Guard_NoProvider
    \/ Step1_BasicInfo \/ Step2_Technical \/ Step3_Fundamental
    \/ Step4_FundFlow \/ Step5_News \/ Step6_Chip
    \/ Step7_Lhb \/ Step8_Margin \/ Step9_Northbound \/ Step10_BlockTrade
    \/ Step11_Shareholder \/ Step12_Institution \/ Step13_Restricted
    \/ Step14_Industry \/ Step15_Dividend
    \/ Step16_Risk \/ Step17_Prediction

SpecAgg == AggInit /\ [][AggNext]_vars


--------------------------------------------------------------------------
(* Properties of analyze_stock, checked under SpecAgg                      *)

Done == pc = "done"

\* the sections the prediction reads nudges from
NudgingKeys ==
    { "technical_analysis", "fundamental_analysis", "fund_flow_analysis",
      "chip_analysis", "lhb_analysis", "margin_analysis", "northbound_analysis",
      "block_trade_analysis", "shareholder_analysis",
      "restricted_shares_analysis", "institution_analysis" }

DomainNudges(k, res) ==
    CASE k = "technical_analysis" -> TechNudges(res)
      [] k = "fundamental_analysis" -> FundNudges(res)
      [] k = "fund_flow_analysis" -> FlowNudges(res)
      [] k = "chip_analysis" -> ChipNudges(res)
      [] k = "lhb_analysis" -> LhbNudges(res)
      [] k = "margin_analysis" -> MarginNudges(res)
      [] k = "northbound_analysis" -> NorthboundNudges(res)
      [] k = "block_trade_analysis" -> BlockTradeNudges(res)
      [] k = "shareholder_analysis" -> ShareholderNudges(res)
      [] k = "restricted_shares_analysis" -> RestrictedNudges(res)
      [] k = "institution_analysis" -> InstitutionNudges(res)

\* the decimal sum of the deltas of ns, in hundredths
RECURSIVE SumDeltas(_)
SumDeltas(ns) == IF ns = <<>> THEN 0 ELSE Head(ns).delta + SumDeltas(Tail(ns))

\* the probability as the decimal sum 0.5 + nudges, in hundredths
SummedProbability == 50 + SumDeltas(Nudges(result))

\* C7: once the analysis is done, the trend is "up" exactly when the summed
\* probability is strictly greater than 0.6, "down" exactly when it is
\* strictly less than 0.4 and "sideways" otherwise; and when the technical
\* up-trend and the high valuation are the only nudges, the probability is
\* 0.6 and the trend is "sideways".
C7_StrictCuts ==
    Done =>
      /\ (result.prediction.trend = "up") <=> (SummedProbability > 60)
      /\ (result.prediction.trend = "down") <=> (SummedProbability < 40)
      /\ (result.prediction.trend = "sideways")
            <=> (SummedProbability >= 40 /\ SummedProbability <= 60)
      /\ KeyFactors(Nudges(result)) = <<"tech_trend_up", "valuation_high">>
            => /\ result.prediction.probability = 60
               /\ result.prediction.trend = "sideways"

\* what the code does at the cuts: it compares the double it accumulated,
\* and the example of C7 comes out as the claim says
C7_CutsOnTheDouble ==
    Done =>
      /\ (result.prediction.trend = "up") <=> FGt(trend_probability, FLit(60))
      /\ (result.prediction.trend = "down") <=> FLt(trend_probability, FLit(40))
      /\ KeyFactors(Nudges(result)) = <<"tech_trend_up", "valuation_high">>
            => /\ result.prediction.probability = 60
               /\ result.prediction.trend = "sideways"

\* a run that ends with probability 0.6 and trend "up"
C7_UpAtSixty ==
    Done /\ result.prediction.probability = 60 /\ result.prediction.trend = "up"

\* a run that ends with probability 0.4 and trend "down"
C7_DownAtForty ==
    Done /\ result.prediction.probability = 40 /\ result.prediction.trend = "down"

\* the example of C7 has run
C7_ExampleReached ==
    Done /\ KeyFactors(Nudges(result)) = <<"tech_trend_up", "valuation_high">>


\* the shapes a section has when its domain gave nothing: empty as built,
\* what the module returns when its provider call failed, its
\* _empty_result(), and for the chip section _empty_chip_result and the
\* shape analyze_stock writes when the chip analysis raised
QuietShapes(k) ==
    {EmptyDict} \cup
    CASE k = "chip_analysis" -> {EmptyChipResult, ChipFailed}
      [] k = "lhb_analysis" -> {FetchLhbData(LhbNoData), LhbEmptyResult}
      [] k = "margin_analysis" -> {FetchMarginData(MarginNoData), MarginEmptyResult}
      [] k = "northbound_analysis" ->
            {FetchNorthboundData(NorthboundNoData), NorthboundEmptyResult}
      [] k = "block_trade_analysis" ->
            {FetchBlockTradeData(BlockTradeNoData), BlockTradeEmptyResult}
      [] k = "shareholder_analysis" ->
            {FetchShareholderData(ShareholderNoData), ShareholderEmptyResult}
      [] k = "restricted_shares_analysis" ->
            {FetchRestrictedSharesData(RestrictedNoData), RestrictedEmptyResult}
      [] k = "institution_analysis" ->
            {FetchInstitutionData(InstitutionNoData), InstitutionEmptyResult}
      [] OTHER -> {}

AllQuiet(res) == \A k \in NudgingKeys : res[k] \in QuietShapes(k)

\* every data module and the chip analysis returned its empty result
FailedEverywhere ==
    [ EmptyResult EXCEPT
        !.chip_analysis = EmptyChipResult,
        !.lhb_analysis = LhbEmptyResult,
        !.margin_analysis = MarginEmptyResult,
        !.northbound_analysis = NorthboundEmptyResult,
        !.block_trade_analysis = BlockTradeEmptyResult,
        !.shareholder_analysis = ShareholderEmptyResult,
        !.restricted_shares_analysis = RestrictedEmptyResult,
        !.institution_analysis = InstitutionEmptyResult ]

NeutralPrediction(pred) ==
    /\ pred.probability = 50
    /\ pred.trend = "sideways"
    /\ pred.key_factors = <<"overall_analysis">>

\* C8: when every domain section is empty or holds the shape its module
\* gives on failure, the prediction has probability exactly 0.5, trend
\* "sideways" and the single placeholder as key_factors; this holds of the
\* result as built (evaluated when the run starts), of the result in which
\* every module returned its empty result, and of every finished run whose
\* sections are all of those shapes.
C8_BaselineWhenQuiet ==
    /\ pc = "basic_info"
          => /\ NeutralPrediction(Prediction(result))
             /\ TrendProbability(result) = FLit(50)
             /\ AllQuiet(FailedEverywhere)
             /\ NeutralPrediction(Prediction(FailedEverywhere))
             /\ TrendProbability(FailedEverywhere) = FLit(50)
    /\ (Done /\ AllQuiet(result))
          => NeutralPrediction(result.prediction) /\ trend_probability = FLit(50)

\* a finished run in which every module failed with its own failure shape
C8_Witness ==
    /\ Done
    /\ AllQuiet(result)
    /\ result.chip_analysis = EmptyChipResult
    /\ result.lhb_analysis = FetchLhbData(LhbNoData)
    /\ result.restricted_shares_analysis = FetchRestrictedSharesData(RestrictedNoData)
    /\ result.technical_analysis = EmptyDict

\* a finished run in which every failure was an exception
C8_AllRaisedReached ==
    /\ Done
    /\ outage = "raises"
    /\ \A k \in NudgingKeys \ {"chip_analysis"} : result[k] = EmptyDict
    /\ result.chip_analysis = ChipFailed

\* C9: in a finished run, emptying any one domain's section that is not
\* empty already lowers the
\* reported probability by exactly the sum of the nudges that domain was
\* contributing, and leaves the nudges (amount and label) of every other
\* domain as they were.
C9_AdditiveIndependent ==
    Done =>
      \A k \in {x \in NudgingKeys : Truthy(result[x])} :
         LET without == [result EXCEPT ![k] = EmptyDict]
         IN /\ FRound2(TrendProbability(without))
                  = result.prediction.probability - SumDeltas(DomainNudges(k, result))
            /\ DomainNudges(k, without) = <<>>
            /\ \A j \in NudgingKeys \ {k} :
                  DomainNudges(j, without) = DomainNudges(j, result)

\* a finished run in which the chip domain and a second domain both nudge
C9_Witness ==
    /\ Done
    /\ SumDeltas(DomainNudges("chip_analysis", result)) # 0
    /\ \E j \in NudgingKeys \ {"chip_analysis"} : SumDeltas(DomainNudges(j, result)) # 0

C10_BelowZeroReached ==
    Done /\ result.prediction.probability < 0 /\ result.prediction.trend = "down"


--------------------------------------------------------------------------
(* stock_analyzer.py : the price band (627-641), checked on the last two   *)
(* steps of analyze_stock run from every quoted price up to MaxPrice       *)

\* largest quoted price of the band runs, in cents
MaxPrice == 30

\* the quotes of the band runs: no price, or a price of 0..MaxPrice cents
\* or of 10.00
BandQuotes ==
    { [name |-> "n"] } \cup
    { [name |-> "n", price |-> c] : c \in (0..MaxPrice) \cup {1000} }

\* technical sections that make the run end up, end down, or (absent)
\* sideways
BandKlines ==
    { [close |-> 10, ma20 |-> 9, ma60 |-> 8, rsi6 |-> 50, overall |-> "buy"],
      [close |-> 10, ma20 |-> 11, ma60 |-> 12, rsi6 |-> 50, overall |-> "strong_sell"] }

\* analyze_stock about to assess the risk: steps 1 and 2 returned or raised,
\* every other step raised
BandInit ==
    /\ \E b \in {EmptyDict} \cup {BasicInfo(q) : q \in BandQuotes},
          t \in {EmptyDict} \cup {TechnicalSection(k) : k \in BandKlines} :
          /\ result = [EmptyResult EXCEPT !.basic_info = b,
                                          !.technical_analysis = t,
                                          !.news_analysis = NewsFailed,
                                          !.chip_analysis = ChipFailed]
          /\ informative = (IF Truthy(b) THEN 1 ELSE 0) + (IF Truthy(t) THEN 1 ELSE 0)
    /\ pc = "risk"
    /\ trend_probability = Baseline
    /\ outage = "raises"
    /\ halves \in [high : BOOLEAN, low : BOOLEAN]
    /\ df = <<>>
    /\ trend = EmptyDict
    /\ cpc = "idle"

BandNext == Step16_Risk \/ Step17_Prediction

SpecBand == BandInit /\ [][BandNext]_vars

\* the latest quoted price of the run, 0 when there is none
QuotedPrice == Get(result.basic_info, "current_price", 0)

\* v is price * pct / 100 rounded to the cent
IsMultiple(v, price, pct) == 100 * v - price * pct \in -50..50

\* the band the claim gives for a classification: <<low pct, high pct>>
ClaimedBand(tr) ==
    IF tr = "up" THEN <<105, 115>>
    ELSE IF tr = "down" THEN <<85, 98>>
    ELSE <<95, 108>>

\* C11: in a finished run the band is the claimed pair of multiples of the
\* latest quoted price for the classification (to the cent), with
\* target_price_low < target_price_high; with no price, or a price not
\* greater than 0, both targets are None.
C11_PriceBand ==
    Done =>
      LET pr == result.prediction
          cb == ClaimedBand(pr.trend)
      IN IF QuotedPrice > 0
         THEN /\ pr.target_price_low # <<>> /\ pr.target_price_high # <<>>
              /\ IsMultiple(pr.target_price_low[1], QuotedPrice, cb[1])
              /\ IsMultiple(pr.target_price_high[1], QuotedPrice, cb[2])
              /\ pr.target_price_low[1] < pr.target_price_high[1]
         ELSE pr.target_price_low = <<>> /\ pr.target_price_high = <<>>

\* what does hold: the same with target_price_low <= target_price_high
C11_BandUpToOrder ==
    Done =>
      LET pr == result.prediction
          cb == ClaimedBand(pr.trend)
      IN IF QuotedPrice > 0
         THEN /\ pr.target_price_low # <<>> /\ pr.target_price_high # <<>>
              /\ IsMultiple(pr.target_price_low[1], QuotedPrice, cb[1])
              /\ IsMultiple(pr.target_price_high[1], QuotedPrice, cb[2])
              /\ pr.target_price_low[1] <= pr.target_price_high[1]
         ELSE pr.target_price_low = <<>> /\ pr.target_price_high = <<>>

\* a finished run on a price of one cent, whose band is [0.01, 0.01]
C11_BandCollapsed ==
    /\ Done
    /\ QuotedPrice = 1
    /\ result.prediction.target_price_low = <<1>>
    /\ result.prediction.target_price_high = <<1>>

\* no quote of the full runs of analyze_stock puts a target on half a cent
QuotesAvoidHalfCents ==
    \A q \in Quotes : \A pct \in {85, 95, 98, 105, 108, 115} :
        (Get(q, "price", 0) * pct) % 100 # 50


--------------------------------------------------------------------------
(* stock_analyzer.py : risk tier (369-422) and recommendation (643-666,    *)
(* 684-703), checked on the last two steps of analyze_stock run from       *)
(* technical and fundamental sections with every kind of oscillator and    *)
(* multiple                                                                *)

\* rsi6 and pe_ttm of the risk runs; 0 stands for None
RiskRsi == {0, 19, 50, 81}
RiskPe == {0, 9, 20, 51}

RiskKlines ==
    { [close |-> 10, ma20 |-> m[1], ma60 |-> m[2], rsi6 |-> r, overall |-> m[3]] :
        m \in { <<9, 8, "buy">>, <<9, 8, "neutral">>, <<11, 12, "strong_sell">>,
                <<11, 12, "neutral">>, <<11, 8, "neutral">> },
        r \in RiskRsi }

RiskFundamentals ==
    { [valuation_level |-> v, profitability_level |-> "moderate",
       growth_level |-> "moderate", pe_ttm |-> e] :
        v \in {"undervalued", "fair"}, e \in RiskPe }

\* analyze_stock about to assess the risk: steps 2, 3 and 4 returned or
\* raised, every other step raised
RiskInit ==
    /\ \E t \in {EmptyDict} \cup {TechnicalSection(k) : k \in RiskKlines},
          f \in {EmptyDict} \cup {FundamentalSection(x) : x \in RiskFundamentals},
          c \in {EmptyDict} \cup {FundFlowSection(x) : x \in CapitalFlows} :
          /\ result = [EmptyResult EXCEPT !.technical_analysis = t,
                                          !.fundamental_analysis = f,
                                          !.fund_flow_analysis = c,
                                          !.news_analysis = NewsFailed,
                                          !.chip_analysis = ChipFailed]
          /\ informative = Cardinality({x \in {1, 2, 3} : Truthy(<<t, f, c>>[x])})
    /\ pc = "risk"
    /\ trend_probability = Baseline
    /\ outage = "raises"
    /\ halves = [high |-> FALSE, low |-> FALSE]
    /\ df = <<>>
    /\ trend = EmptyDict
    /\ cpc = "idle"

RiskNext == Step16_Risk \/ Step17_Prediction

SpecRisk == RiskInit /\ [][RiskNext]_vars

\* the risk assessment has run
Assessed == pc \in {"prediction", "done"}

\* the three proxy votes of the assessment
Votes ==
    << result.risk_assessment.volatility_risk,
       result.risk_assessment.valuation_risk,
       result.risk_assessment.trend_risk >>

VoteCount(v) == Cardinality({i \in 1..3 : Votes[i] = v})

\* C12: once the risk is assessed the overall tier is "high" when at least
\* two of the three votes are high, otherwise "low" when at least two are
\* low, otherwise "medium"; it stays so through the prediction, and it is
\* the same whatever the capital flow (hence the probability) is.
C12_RiskMajority ==
    Assessed =>
      /\ result.risk_assessment.overall_risk =
            IF VoteCount("high") >= 2 THEN "high"
            ELSE IF VoteCount("low") >= 2 THEN "low"
            ELSE "medium"
      /\ \A c \in {EmptyDict} \cup {FundFlowSection(x) : x \in CapitalFlows} :
            RiskAssessment([result EXCEPT !.fund_flow_analysis = c])
               = result.risk_assessment

\* a finished run with two high votes and one low vote, tier high
C12_Witness ==
    /\ Done
    /\ VoteCount("high") = 2
    /\ VoteCount("low") = 1
    /\ result.risk_assessment.overall_risk = "high"
    /\ result.prediction.probability # 50

\* a finished run with two low votes, tier low
C12_LowReached ==
    Done /\ VoteCount("low") = 2 /\ result.risk_assessment.overall_risk = "low"


\* C13: in a finished run, "up" with a probability above 0.7 gives the buy
\* text, the cautious one exactly when the risk tier is high; "up" with a
\* probability above 0.5 and at most 0.7 gives the watch text; "sideways"
\* gives the wait-for-the-trend text; so the text is a function of the
\* classification, the two probability tests and the high-risk test.
C13_Recommendation ==
    Done =>
      LET pr == result.prediction IN
      /\ (pr.trend = "up" /\ pr.probability > 70)
            => pr.recommendation =
                  IF pr.risk_level = "risk_high" THEN "buy_cautiously" ELSE "buy"
      /\ (pr.trend = "up" /\ pr.probability > 50 /\ pr.probability <= 70)
            => pr.recommendation = "watch_for_entry"
      /\ pr.trend = "sideways" => pr.recommendation = "wait_for_trend"

\* what the code does: the same with the two tests made on the double
C13_OnTheDouble ==
    Done =>
      LET pr == result.prediction IN
      /\ (pr.trend = "up" /\ FGt(trend_probability, FLit(70)))
            => pr.recommendation =
                  IF pr.risk_level = "risk_high" THEN "buy_cautiously" ELSE "buy"
      /\ (pr.trend = "up" /\ ~ FGt(trend_probability, FLit(70)))
            => pr.recommendation = "watch_for_entry"
      /\ pr.trend = "sideways" => pr.recommendation = "wait_for_trend"

\* a finished run that reports 0.7 and recommends buying
C13_BuyAtSeventy ==
    /\ Done
    /\ result.prediction.probability = 70
    /\ result.prediction.recommendation = "buy"

\* a finished run classified up above 0.7 under a high risk tier
C13_CautiousReached ==
    /\ Done
    /\ result.prediction.risk_level = "risk_high"
    /\ result.prediction.recommendation = "buy_cautiously"


--------------------------------------------------------------------------
(* stock_analyzer.py : failure isolation of analyze_stock, checked on the  *)
(* runs in which any subset of the fifteen steps fails                     *)

IsoInit ==
    /\ result = EmptyResult
    /\ pc = "basic_info"
    /\ trend_probability = Baseline
    /\ outage \in {"sampled", "empty"}
    /\ informative = IF outage = "empty" THEN MaxInformative ELSE 0
    /\ halves = [high |-> FALSE, low |-> FALSE]
    /\ df = <<>>
    /\ trend = EmptyDict
    /\ cpc = "idle"

SpecIso == IsoInit /\ [][AggNext]_vars

\* the steps in the order of the code, and the section each one writes
StepOrder ==
    << "basic_info", "technical", "fundamental", "fund_flow", "news", "chip",
       "lhb", "margin", "northbound", "block_trade", "shareholder",
       "institution", "restricted", "industry", "dividend", "risk",
       "prediction", "done" >>

SectionOrder ==
    << "basic_info", "technical_analysis", "fundamental_analysis",
       "fund_flow_analysis", "news_analysis", "chip_analysis", "lhb_analysis",
       "margin_analysis", "northbound_analysis", "block_trade_analysis",
       "shareholder_analysis", "institution_analysis",
       "restricted_shares_analysis", "industry_compare_analysis",
       "dividend_analysis", "risk_assessment", "prediction" >>

StepIndex(step) == CHOOSE i \in 1..Len(StepOrder) : StepOrder[i] = step

\* a step was taken from a state in which the run is under way
Running == pc \in {StepOrder[i] : i \in 1..17}

\* the sections the domain steps write when their callees return the
\* samples (step 6 is given the price step 1 found, or none)
SampleSections ==
    << BasicInfo(Samples.quote),
       TechnicalSection(Samples.kline),
       FundamentalSection(Samples.fundamental),
       FundFlowSection(Samples.capital_flow),
       NewsSection(Samples.news),
       [ priced |-> ChipResult(Samples.chip, Samples.quote.price),
         unpriced |-> ChipResult(Samples.chip, 0) ],
       FetchLhbData(Samples.lhb),
       FetchMarginData(Samples.margin),
       FetchNorthboundData(Samples.northbound),
       FetchBlockTradeData(Samples.block_trade),
       FetchShareholderData(Samples.shareholder),
       FetchInstitutionData(Samples.institution),
       FetchRestrictedSharesData(Samples.restricted),
       FetchIndustryCompareData(Samples.industry),
       FetchDividendData(Samples.dividend) >>

SampleSection(i) ==
    IF i # 6 THEN SampleSections[i]
    ELSE IF Truthy(result.basic_info) THEN SampleSections[6].priced
    ELSE SampleSections[6].unpriced

\* what a failed (raising) domain step leaves in its section
RaisedSection(i) ==
    IF i = 5 THEN NewsFailed ELSE IF i = 6 THEN ChipFailed ELSE EmptyDict

\* C14: whichever steps raise, every step of a run under way, failed or
\* not, hands over to the next step in order (only the provider guard
\* before step 1 ends the run) and changes no section but its own; in the
\* finished run every domain section holds what its step produced or what
\* its failure left, and the risk assessment and the prediction are the
\* ones computed from those sections.
C14_FailureIsolation ==
    /\ [][ /\ Running
           /\ \/ pc' = StepOrder[StepIndex(pc) + 1]
              \/ pc = "basic_info" /\ pc' = "raised"
           /\ \A i \in 1..17 :
                 result'[SectionOrder[i]] # result[SectionOrder[i]]
                    => i = StepIndex(pc) ]_vars
    /\ [](Done =>
            /\ outage = "sampled" =>
                  \A i \in 1..15 :
                     result[SectionOrder[i]] \in {SampleSection(i), RaisedSection(i)}
            /\ result.risk_assessment = RiskAssessment(result)
            /\ result.prediction = Prediction(result))

\* a finished run in which steps 1 and 3 failed, steps 2 and 7 returned,
\* and the prediction carries the nudges of steps 2 and 7 only
C14_Witness ==
    /\ Done
    /\ result.basic_info = EmptyDict
    /\ result.technical_analysis = TechnicalSection(Samples.kline)
    /\ result.fundamental_analysis = EmptyDict
    /\ result.lhb_analysis = FetchLhbData(Samples.lhb)
    /\ result.prediction.key_factors = <<"tech_trend_up", "tech_buy_signal", "lhb_net_buy">>

\* a finished run in which no step failed
C14_NoneFailed ==
    Done /\ \A i \in 1..15 : result[SectionOrder[i]] = SampleSection(i)


\* the domain steps of a finished run whose callee raised: the section
\* is not the one the callee's sample produces
FailedSteps ==
    {i \in 1..15 : result[SectionOrder[i]] # SampleSection(i)}

\* the empty-result shape of domain i, for the domains that define one
\* (news and chip in the orchestrator, the nine added sources in their
\* modules); the other four domains define none
EmptyShapeKeys(i) ==
    CASE i = 5 -> {"news_count", "summary"}
      [] i = 6 -> DOMAIN EmptyChipResult \ {"error"}
      [] i = 7 -> DOMAIN LhbEmptyResult
      [] i = 8 -> DOMAIN MarginEmptyResult
      [] i = 9 -> DOMAIN NorthboundEmptyResult
      [] i = 10 -> DOMAIN BlockTradeEmptyResult
      [] i = 11 -> DOMAIN ShareholderEmptyResult
      [] i = 12 -> DOMAIN InstitutionEmptyResult
      [] i = 13 -> DOMAIN RestrictedEmptyResult
      [] i = 14 -> DOMAIN FetchIndustryCompareData(IndustryNoData)
      [] i = 15 -> DOMAIN FetchDividendData(DividendNoData)
      [] OTHER -> {}

\* section i carries its domain's empty shape and an error string
ShapedWithError(i) ==
    /\ "error" \in DOMAIN result[SectionOrder[i]]
    /\ EmptyShapeKeys(i) \subseteq DOMAIN result[SectionOrder[i]]

\* C15: in a finished run, the section of every domain whose step raised
\* holds the domain's empty-result shape together with an error string,
\* for each of the fifteen domain sections.
C15_FailedSectionShaped ==
    Done /\ outage = "sampled" => \A i \in FailedSteps : ShapedWithError(i)

\* what the code does: the news and chip sections are shaped on failure,
\* every other failed section stays the empty dict it was created as
C15_OnlyNewsAndChipShaped ==
    Done /\ outage = "sampled" =>
        \A i \in FailedSteps :
            IF i \in {5, 6} THEN ShapedWithError(i)
            ELSE result[SectionOrder[i]] = EmptyDict

\* a finished run in which every step raised
C15_AllFailedReached ==
    Done /\ outage = "sampled" /\ FailedSteps = 1..15


--------------------------------------------------------------------------
(* chip_analysis.py : analyze_chip_distribution run on its own, over what  *)
(* the provider may do                                                     *)

ChipColumns == {"day", "win", "cost", "c90", "c70"}

\* the frame d without the column c
DropColumn(d, c) ==
    [ i \in 1..Len(d) |-> [ k \in DOMAIN d[i] \ {c} |-> d[i][k] ] ]

\* frames the provider may answer with: none or an empty one (<<>>),
\* series of 1 to 12 rows, and frames that lack a column
DistSeries ==
    { BuildSeries(n,
        [win |-> x[3], cost |-> 1000, c90 |-> x[1], c70 |-> 100],
        [win |-> x[4], cost |-> 1000, c90 |-> x[2], c70 |-> 100]) :
        n \in {1, 4, 5, 12},
        x \in { <<100, 94, 500, 500>>, <<150, 150, 500, 50>>,
                <<450, 480, 850, 950>> } }

DistFrames ==
    {<<>>} \cup DistSeries
    \cup { DropColumn(d, c) : d \in DistSeries, c \in {"c90", "win"} }

DistPrices == {0, 800, 1000}

DistInit ==
    /\ df \in DistFrames
    /\ outage \in {"empty", "raises", "answers"}
    /\ cpc = "start"
    /\ trend = EmptyDict
    /\ result = EmptyDict
    /\ pc = "idle"
    /\ trend_probability = [h |-> 50, d |-> 0]
    /\ informative = 0
    /\ halves = [high |-> FALSE, low |-> FALSE]

\* 49-60, the variant that hands an empty frame on
FetchChipDistribution_EmptyPasses ==
    IF outage = "empty" THEN "DataSourceError"
    ELSE IF outage = "raises" THEN "DataSourceError"
    ELSE "frame"

\* fetch_chip_distribution (49-60): DataSourceError when the provider
\* library is missing, when the provider call raises, and when it answers
\* with None or an empty frame; otherwise the frame
FetchChipDistribution ==
    IF outage = "empty" THEN "DataSourceError"
    ELSE IF outage = "raises" THEN "DataSourceError"
    ELSE IF df = <<>> THEN "DataSourceError"
    ELSE "frame"

\* the computation at 96-127 goes through: there is a last row (99) and
\* every column it reads is there
Computable(d) ==
    d # <<>> /\ \A i \in 1..Len(d) : ChipColumns \subseteq DOMAIN d[i]

\* analyze_chip_distribution (87-131)
AnalyzeChipDistribution ==
    /\ cpc = "start"
    /\ pc = "idle"
    /\ \E current_price \in DistPrices :
          IF FetchChipDistribution = "DataSourceError"
          THEN result' = EmptyChipResult /\ cpc' = "returned"
          ELSE IF Computable(df)
          THEN result' = ChipResult(df, current_price) /\ cpc' = "returned"
          ELSE result' = result /\ cpc' = "calculation_error"
    /\ UNCHANGED <<df, trend, pc, trend_probability, informative, outage, halves>>

DistNext == AnalyzeChipDistribution

SpecDist == DistInit /\ [][DistNext]_vars

\* the data source did not supply a series
DataSourceFailed == outage \in {"empty", "raises"} \/ df = <<>>

C16_CalculationErrorReached ==
    cpc = "calculation_error" /\ outage = "answers" /\ Len(df) = 12

\* a fetched series was analysed
C16_AnalysedReached ==
    cpc = "returned" /\ "error" \notin DOMAIN result /\ result.trend.period_days = 12


--------------------------------------------------------------------------
(* chip_analysis.py : _analyze_chip_trend on short series and its          *)
(* horizons, checked under SpecChip                                        *)

Analysed == cpc = "done"

\* C17: for a series shorter than 5 points the trend record has
\* period_days equal to the length of the series, the three trend labels
\* 'stable', institutional_signal 'neutral' with confidence 'low', and an
\* empty multi_period.
C17_ShortSeriesRecord ==
    Analysed /\ Len(df) < 5 =>
        /\ trend.period_days = Len(df)
        /\ trend.concentration_trend = "stable"
        /\ trend.cost_center_trend = "stable"
        /\ trend.winner_rate_trend = "stable"
        /\ trend.institutional_signal = "neutral"
        /\ trend.institutional_confidence = "low"
        /\ trend.multi_period = EmptyDict

\* what the code returns for a short series: the record it starts from,
\* whose period_days is 0 (the length is stored at 169, after the return)
C17_ShortSeriesIsDefault ==
    Analysed /\ Len(df) < 5 => trend = DefaultTrend

\* a series of 4 points was analysed
C17_ShortReached ==
    Analysed /\ Len(df) = 4 /\ trend.period_days = 0

\* C18: a horizon (short 5, medium 10, long 20) is in multi_period exactly
\* when the series has at least its window length + 5 points (10, 15, 25);
\* the analysis of a series of any length completes, and a horizon that is
\* left out does not take another one with it.
C18_HorizonOmitted ==
    Analysed =>
        /\ \A p \in PeriodNames :
              p \in DOMAIN trend.multi_period <=> Len(df) >= PeriodLen(p) + 5
        /\ DOMAIN trend.multi_period =
              {p \in {"short"} : Len(df) >= 10}
              \cup {p \in {"medium"} : Len(df) >= 15}
              \cup {p \in {"long"} : Len(df) >= 25}

\* a series of 24 points: the long horizon is left out, the other two stay
C18_Witness ==
    Analysed /\ Len(df) = 24 /\ DOMAIN trend.multi_period = {"short", "medium"}

\* a series of 25 points has all three horizons
C18_AllHorizonsReached ==
    Analysed /\ Len(df) = 25 /\ DOMAIN trend.multi_period = PeriodNames


--------------------------------------------------------------------------
(* chip_analysis.py : the comparison windows of _analyze_chip_trend,       *)
(* checked on series whose rows differ and on series whose earlier rows    *)
(* are 0                                                                   *)

\* n rows whose average cost grows by `step` cents a day
RampSeries(n, step) ==
    [ i \in 1..n |-> Row(i, [win |-> 500, cost |-> 1000 + step * i,
                              c90 |-> 100, c70 |-> 100]) ]

\* n rows whose earlier rows have the columns of `zero` at 0 and whose
\* last RecentRows rows have them at `level`
ZeroBaseSeries(n, zero, level) ==
    BuildSeries(n,
        [win |-> 500, cost |-> IF "cost" \in zero THEN 0 ELSE 1000,
         c90 |-> IF "c90" \in zero THEN 0 ELSE 100, c70 |-> 100],
        [win |-> 500, cost |-> IF "cost" \in zero THEN level * 10 ELSE 1000,
         c90 |-> IF "c90" \in zero THEN level ELSE 100, c70 |-> 100])

WindowInputs ==
    { RampSeries(n, step) : n \in 1..MaxLen, step \in {2, 4} }
    \cup { ZeroBaseSeries(n, zero, level) :
             n \in 10..MaxLen, zero \in {{"c90"}, {"cost"}, {"c90", "cost"}},
             level \in {0, 100} }

WindowInit ==
    /\ df \in WindowInputs
    /\ trend = EmptyDict
    /\ cpc = "start"
    /\ result = EmptyDict
    /\ pc = "idle"
    /\ trend_probability = [h |-> 50, d |-> 0]
    /\ informative = 0
    /\ outage = "raises"
    /\ halves = [high |-> FALSE, low |-> FALSE]

SpecWindow == WindowInit /\ [][ChipNext]_vars

\* rows a+1 .. a+w of the series
RowsFrom(d, a, w) == [ i \in 1..w |-> d[a + i] ]

\* two means are the same number
SameMean(a, b) == a.n > 0 /\ b.n > 0 /\ a.sum * b.n = b.sum * a.n

\* C19: for every computed horizon the recent window is the last
\* windowLen points and the earlier window is the windowLen points just
\* before it when the series has at least 2 * windowLen points, otherwise
\* the first windowLen points of the series; the earlier window is never
\* empty; the means the horizon reports are the means of these windows.
C19_Windows ==
    Analysed =>
        \A p \in DOMAIN trend.multi_period :
            LET w == PeriodLen(p)
                n == Len(df)
                recent == RowsFrom(df, n - w, w)
                earlier == IF n >= 2 * w THEN RowsFrom(df, n - 2 * w, w)
                           ELSE RowsFrom(df, 0, w)
            IN /\ PeriodRecent(df, w) = recent
               /\ PeriodEarlier(df, w) = earlier
               /\ PeriodEarlier(df, w) # <<>>
               /\ SameMean(trend.multi_period[p].recent_avg_cost,
                           Mean(recent, "cost"))
               /\ SameMean(trend.multi_period[p].earlier_avg_cost,
                           Mean(earlier, "cost"))

\* a rising series of 12 points: the earlier window of the short horizon
\* is rows 3..7, whose mean cost is 1010
C19_Witness ==
    /\ Analysed /\ Len(df) = 12 /\ df[1].cost = 1002 /\ df[2].cost = 1004
    /\ trend.multi_period["short"].earlier_avg_cost = [sum |-> 5050, n |-> 5]

\* a rising series of 15 points: the medium horizon falls back to the
\* first 10 rows, which overlap the recent window
C19_FallbackReached ==
    /\ Analysed /\ Len(df) = 15 /\ df[1].cost = 1002 /\ df[2].cost = 1004
    /\ trend.multi_period["medium"].earlier_avg_cost = [sum |-> 10110, n |-> 10]


IsZero(change) == change.num = 0

\* C20: an earlier mean of 0 counts as 0% change and as 'stable': when the
\* earlier mean of the 90% concentration (of the average cost) is 0, the
\* change the horizon reports is 0 and the concentration (cost centre)
\* label is 'stable', whatever the recent mean is.
C20_ZeroBaseStable ==
    /\ Analysed =>
          \A p \in DOMAIN trend.multi_period :
              LET earlier == PeriodEarlier(df, PeriodLen(p)) IN
              /\ Mean(earlier, "c90").sum = 0 =>
                    IsZero(trend.multi_period[p].concentration_90_change_pct)
              /\ Mean(earlier, "cost").sum = 0 =>
                    IsZero(trend.multi_period[p].cost_center_change_pct)
    /\ Compared =>
          /\ Mean(MainEarly(df), "c90").sum = 0 =>
                trend.concentration_trend = "stable"
          /\ Mean(MainEarly(df), "cost").sum = 0 =>
                trend.cost_center_trend = "stable"

\* what the code does: the horizons report a change of 0 over an earlier
\* mean of 0 (189-191), while the labels at 220-223 and 232-235 compare
\* the recent mean with 0 * 0.95, 0 * 1.05, 0 * 1.02 and 0 * 0.98, so that
\* any positive recent mean is 'dispersing' and 'rising'
C20_ZeroBaseAsCoded ==
    /\ Analysed =>
          \A p \in DOMAIN trend.multi_period :
              LET earlier == PeriodEarlier(df, PeriodLen(p)) IN
              /\ Mean(earlier, "c90").sum = 0 =>
                    IsZero(trend.multi_period[p].concentration_90_change_pct)
              /\ Mean(earlier, "cost").sum = 0 =>
                    IsZero(trend.multi_period[p].cost_center_change_pct)
    /\ Compared =>
          /\ Mean(MainEarly(df), "c90").sum = 0 =>
                trend.concentration_trend =
                    (IF Mean(MainRecent(df), "c90").sum > 0
                     THEN "dispersing" ELSE "stable")
          /\ Mean(MainEarly(df), "cost").sum = 0 =>
                trend.cost_center_trend =
                    (IF Mean(MainRecent(df), "cost").sum > 0
                     THEN "rising" ELSE "stable")

\* a series whose concentration rose from 0: the short horizon reports no
\* change and the label is 'dispersing'
C20_DispersingFromZero ==
    /\ Compared
    /\ Mean(MainEarly(df), "c90").sum = 0
    /\ Mean(MainRecent(df), "c90").sum > 0
    /\ IsZero(trend.multi_period["short"].concentration_90_change_pct)
    /\ trend.concentration_trend = "dispersing"


--------------------------------------------------------------------------
(* chip_analysis.py : the scoring rules of _analyze_chip_trend as a        *)
(* function of the labels, checked under SpecChip                          *)

ConcLabels == {"concentrating", "stable", "dispersing"}
CostLabels == {"rising", "stable", "falling"}
WinnerLabels == {"rising", "stable", "falling"}

\* position of a concentration label on the way from wide to narrow
Narrowness(conc) ==
    CASE conc = "dispersing" -> 0 [] conc = "stable" -> 1 [] conc = "concentrating" -> 2

\* the two scores the rules give to the series df of the state when the
\* concentration label is conc and everything else is as analysed
AccWith(conc) ==
    SumFired(Rules(conc, trend.cost_center_trend, trend.winner_rate_trend,
                   df[Len(df)].win, df), "acc")
DistWith(conc) ==
    SumFired(Rules(conc, trend.cost_center_trend, trend.winner_rate_trend,
                   df[Len(df)].win, df), "dist")

\* C21: with the cost label, the winner-rate label, the latest winner rate
\* and the 70% band comparison as analysed, every concentration label
\* narrower than the analysed one gives an accumulation_score that is not
\* lower than the analysed one.
C21_MonotonicInConcentration ==
    Scored =>
        \A conc \in ConcLabels :
            Narrowness(conc) > Narrowness(trend.concentration_trend)
               => AccWith(conc) >= AccScore

\* what the rules do: the score drops, by 1, exactly on the way from
\* 'dispersing' to 'stable' under a falling winner rate (rule 6 at 310-313
\* adds 1 to accumulation_score for 'dispersing'); every other narrowing
\* keeps or raises it
C21_DropsOnlyOffShakeOut ==
    Scored =>
        \A conc \in ConcLabels :
            Narrowness(conc) > Narrowness(trend.concentration_trend) =>
                IF /\ trend.concentration_trend = "dispersing"
                   /\ conc = "stable"
                   /\ trend.winner_rate_trend = "falling"
                THEN AccWith(conc) = AccScore - 1
                ELSE AccWith(conc) >= AccScore

\* a dispersing series with a falling winner rate was scored
C21_ShakeOutReached ==
    /\ Scored
    /\ trend.concentration_trend = "dispersing"
    /\ trend.winner_rate_trend = "falling"
    /\ AccWith("stable") < AccScore


\* C22: whenever the concentration label is 'concentrating' and the
\* winner-rate label is 'falling', the +3 rule fires and the verdict is
\* 'accumulating' with confidence 'medium' or 'high', whatever the other
\* rules add: for every analysed series, and for the rules applied to its
\* 70% band under every cost label and latest winner rate.
C22_ConcentratingFallingAccumulates ==
    Scored =>
        /\ trend.concentration_trend = "concentrating"
           /\ trend.winner_rate_trend = "falling" =>
              /\ trend.interpretation # <<>> /\ trend.interpretation[1] = "sig1"
              /\ AccScore >= 3
              /\ trend.institutional_signal = "accumulating"
              /\ trend.institutional_confidence \in {"medium", "high"}
        /\ \A cost \in CostLabels, latest_winner \in {100, 500} :
              LET rules == Rules("concentrating", cost, "falling", latest_winner, df)
                  verdict == InstitutionalVerdict(SumFired(rules, "acc"),
                                                  SumFired(rules, "dist"))
              IN /\ rules[1].fires
                 /\ verdict.signal = "accumulating"
                 /\ verdict.confidence \in {"medium", "high"}

\* the 25-day series of the claim: score 3, accumulating, medium
C22_Witness ==
    /\ Scored /\ df \in ChipExamples
    /\ trend.concentration_trend = "concentrating"
    /\ trend.winner_rate_trend = "falling"
    /\ AccScore = 3
    /\ trend.institutional_signal = "accumulating"
    /\ trend.institutional_confidence = "medium"

\* the +3 rule fired together with the widening of the 70% band, which
\* adds to the other score
C22_AgainstWideningReached ==
    /\ Scored
    /\ trend.concentration_trend = "concentrating"
    /\ trend.winner_rate_trend = "falling"
    /\ AccScore = 3 /\ DistScore = 1
    /\ trend.institutional_confidence = "medium"


\* the condition each rule states for itself (279, 284, 289, 294, 299, 304,
\* 311, 320, 323), in the order of the rules, with the scores it adds
OwnRules ==
    LET conc == trend.concentration_trend
        cost == trend.cost_center_trend
        winner == trend.winner_rate_trend
        band == Len(df) >= 10
    IN << [holds |-> conc = "concentrating" /\ winner = "falling", acc |-> 3, dist |-> 0],
          [holds |-> conc = "concentrating" /\ cost = "falling", acc |-> 2, dist |-> 0],
          [holds |-> conc = "concentrating" /\ winner = "rising", acc |-> 1, dist |-> 0],
          [holds |-> conc = "dispersing" /\ winner = "rising", acc |-> 0, dist |-> 3],
          [holds |-> conc = "dispersing" /\ cost = "rising", acc |-> 0, dist |-> 2],
          [holds |-> conc = "dispersing" /\ winner = "falling", acc |-> 1, dist |-> 1],
          [holds |-> cost = "falling" /\ df[Len(df)].win < 150, acc |-> 1, dist |-> 0],
          [holds |-> band /\ MeanLtScaled(Recent70(df), Early70(df), 90, 100),
           acc |-> 2, dist |-> 0],
          [holds |-> band /\ MeanGtScaled(Recent70(df), Early70(df), 110, 100),
           acc |-> 0, dist |-> 1] >>

RECURSIVE SumHolding(_, _)
SumHolding(rs, f) ==
    IF rs = <<>> THEN 0
    ELSE (IF rs[1].holds THEN rs[1][f] ELSE 0) + SumHolding(Tail(rs), f)

\* the number of rules whose own condition holds
HoldingCount == Cardinality({i \in 1..Len(OwnRules) : OwnRules[i].holds})

\* C23: the rules are independent: the scores of a run are the sums over
\* all rules whose own condition holds, each of which left its text, so no
\* firing rule keeps another one from firing; and under 'dispersing' with a
\* falling winner rate one rule adds 1 to each of the two scores.
C23_RulesIndependent ==
    Scored =>
        /\ AccScore = SumHolding(OwnRules, "acc")
        /\ DistScore = SumHolding(OwnRules, "dist")
        /\ Len(trend.interpretation) = HoldingCount
        /\ trend.concentration_trend = "dispersing"
           /\ trend.winner_rate_trend = "falling" =>
              /\ AccScore = 1 + SumHolding(SubSeq(OwnRules, 7, 9), "acc")
              /\ DistScore = 1 + OwnRules[5].dist * (IF OwnRules[5].holds THEN 1 ELSE 0)
                               + SumHolding(SubSeq(OwnRules, 7, 9), "dist")
              /\ \E i \in 1..Len(trend.interpretation) : trend.interpretation[i] = "sig6"

\* a run in which only rule 6 fired: both scores are 1
C23_Witness ==
    /\ Scored
    /\ trend.concentration_trend = "dispersing"
    /\ trend.winner_rate_trend = "falling"
    /\ AccScore = 1 /\ DistScore = 1
    /\ trend.interpretation = <<"sig6">>

\* a run in which four rules fired together
C23_FourRulesReached ==
    Scored /\ HoldingCount = 4 /\ Len(trend.interpretation) = 4


\* the largest scores the rule set can give (rules 1, 2, 7 and the narrowing
\* of the 70% band; rules 4, 5 and its widening)
MaxAccumulation == 3 + 2 + 1 + 2
MaxDistribution == 3 + 2 + 1

\* series whose 70% band narrows, stays and widens
BandExemplars ==
    { BuildSeries(12, [win |-> 500, cost |-> 1000, c90 |-> 100, c70 |-> 100],
                      [win |-> 500, cost |-> 1000, c90 |-> 100, c70 |-> r]) :
        r \in {89, 100, 111} }

\* the rule lists under every combination of labels, latest winner rate
\* and 70% band
RuleLists ==
    { Rules(conc, cost, winner, latest_winner, d) :
        conc \in ConcLabels, cost \in CostLabels, winner \in WinnerLabels,
        latest_winner \in {100, 500}, d \in BandExemplars }

\* the bounds of C26 on every rule list
RuleListsBounded ==
    \A rules \in RuleLists :
        /\ SumFired(rules, "acc") \in 0..MaxAccumulation
        /\ SumFired(rules, "dist") \in 0..MaxDistribution
        /\ (TextsFired(rules) = <<>>) <=>
              (SumFired(rules, "acc") = 0 /\ SumFired(rules, "dist") = 0)
        /\ \A i \in 1..Len(rules) :
              /\ rules[i].acc \in 0..3 /\ rules[i].dist \in 0..3
              /\ rules[i].acc + rules[i].dist >= 1

\* C26: after a run of the rules both scores are non-negative integers,
\* accumulation_score is at most 8 and distribution_score at most 6, every
\* increment of a rule is between 1 and 3, and the interpretation list is
\* empty exactly when both scores are 0; for the scores of every analysed
\* series and for the rules under every combination of labels.
C26_ScoreBounds ==
    Scored =>
        /\ AccScore \in 0..MaxAccumulation
        /\ DistScore \in 0..MaxDistribution
        /\ (trend.interpretation = <<>>) <=> (AccScore = 0 /\ DistScore = 0)
        /\ RuleListsBounded

\* a run that reached the largest accumulation score
C26_Witness ==
    Scored /\ AccScore = MaxAccumulation /\ DistScore = 0
           /\ Len(trend.interpretation) = 4

\* a run that reached the largest distribution score
C26_MaxDistributionReached ==
    Scored /\ DistScore = MaxDistribution /\ AccScore = 0

\* a run in which no rule fired
C26_NoRuleReached ==
    Scored /\ AccScore = 0 /\ DistScore = 0 /\ trend.interpretation = <<>>


--------------------------------------------------------------------------
(* chip_analysis.py : the concentration slope and the scoring rules,       *)
(* checked on series that differ only outside the comparison windows       *)

\* the series d with `bump` added to the 90% concentration of row `row`
Bumped(d, row, bump) ==
    [ d EXCEPT ![row] = [ d[row] EXCEPT !.c90 = d[row].c90 + bump ] ]

\* (early, recent) levels of the 90% concentration and the winner rate
SlopeBases ==
    { <<100, 100, 500, 500>>, <<100, 94, 500, 100>>,
      <<100, 106, 500, 551>>, <<100, 106, 500, 100>> }

\* series of 12 to 14 rows: rows 6 and 7 lie in neither window of the main
\* comparison (rows 1..5 and the last 5), but in the slope's range
SlopeInputs ==
    { Bumped(BuildSeries(n,
                [win |-> x[3], cost |-> 1000, c90 |-> x[1], c70 |-> 100],
                [win |-> x[4], cost |-> 1000, c90 |-> x[2], c70 |-> 100]),
             row, bump) :
        n \in {12, 13, 14}, x \in SlopeBases, row \in {6, 7},
        bump \in {-50, 0, 100, 400} }

SlopeInit ==
    /\ df \in SlopeInputs
    /\ trend = EmptyDict
    /\ cpc = "start"
    /\ result = EmptyDict
    /\ pc = "idle"
    /\ trend_probability = [h |-> 50, d |-> 0]
    /\ informative = 0
    /\ outage = "raises"
    /\ halves = [high |-> FALSE, low |-> FALSE]

SpecSlope == SlopeInit /\ [][ChipNext]_vars

\* how the 70% band of d compares (320, 323)
BandClass(d) ==
    IF Len(d) < 10 THEN "none"
    ELSE IF MeanLtScaled(Recent70(d), Early70(d), 90, 100) THEN "narrow"
    ELSE IF MeanGtScaled(Recent70(d), Early70(d), 110, 100) THEN "widen"
    ELSE "same"

\* what the rules read of an analysed series, its slope class and scores
RuleView(d, tr) ==
    [ inputs |-> << tr.concentration_trend, tr.cost_center_trend,
                    tr.winner_rate_trend, d[Len(d)].win, BandClass(d) >>,
      speed  |-> tr.details.concentration_speed,
      scores |-> << tr.details.accumulation_score,
                    tr.details.distribution_score >> ]

\* the views of all series of SlopeInputs
SlopeViews == { RuleView(d, AnalyzeChipTrend(d)) : d \in SlopeInputs }

\* the views that agree with the analysed series on everything the claim
\* holds fixed and differ from it in the slope class
SlopePeers ==
    { v \in SlopeViews : /\ v.inputs = RuleView(df, trend).inputs
                         /\ v.speed # RuleView(df, trend).speed }

\* C27: the scores depend on the slope class: an analysed series that has
\* peers with the same three labels, latest winner rate and 70% band
\* comparison but another slope class has such a peer with other scores.
C27_SlopeIsAnInput ==
    Scored /\ SlopePeers # {} =>
        \E v \in SlopePeers : v.scores # RuleView(df, trend).scores

\* what the code does: the slope class is written to details (253-266)
\* and read by no rule; series that agree on the labels, the latest
\* winner rate and the 70% band have the same scores
C27_SlopeIgnored ==
    Scored =>
        \A v \in SlopeViews :
            v.inputs = RuleView(df, trend).inputs
               => v.scores = RuleView(df, trend).scores

\* a series scored 3 whose slope is fast concentrating and whose peers,
\* scored 3 as well, have a slowly concentrating and a dispersing slope
C27_OtherClassesReached ==
    /\ Scored /\ AccScore = 3
    /\ trend.details.concentration_speed = "fast_concentrating"
    /\ {v.speed : v \in SlopePeers} = {"slow_concentrating", "slow_dispersing"}
    /\ \A v \in SlopePeers : v.scores = <<3, 0>>


--------------------------------------------------------------------------
(* stock_analyzer.py and data/*.py : what the prediction reads of the      *)
(* records the data modules return, checked under SpecAgg                  *)

\* the pressure tier fetch_restricted_shares_data rated the release at
LockupTier ==
    Get(Get(result.restricted_shares_analysis, "analysis", EmptyDict),
        "pressure_level", "absent")

\* the factor labels of the finished run, as a set
FactorSet ==
    {result.prediction.key_factors[i] : i \in 1..Len(result.prediction.key_factors)}

\* C24: in a finished run, a release rated at the highest pressure tier
\* lowers the probability by 0.05 and adds the lock-up label, one rated at
\* the middle tier lowers it by 0.02, and the lowest tier or no upcoming
\* release contributes nothing.
C24_LockupGated ==
    Done =>
        LET ns == RestrictedNudges(result) IN
        /\ LockupTier = "high_zh" =>
              /\ SumDeltas(ns) = -5
              /\ "unlock_large" \in FactorSet
        /\ LockupTier = "medium_zh" => SumDeltas(ns) = -2
        /\ LockupTier \in {"low_zh", "none_zh", "absent"} => ns = <<>>

\* what the code does: the analyzer writes its tiers in Chinese
\* (restricted_shares_data.py 126, 130, 134, 96) and the prediction tests
\* the English words 'high' and 'medium' (597, 600), so that no record the
\* module can return moves the probability or adds a label
C24_LockupNeverNudges ==
    /\ Done =>
          /\ RestrictedNudges(result) = <<>>
          /\ FactorSet \cap {"unlock_large", "unlock_some"} = {}
    /\ pc = "basic_info" =>
          \A raw \in RestrictedRaw :
              RestrictedNudges([EmptyResult EXCEPT
                  !.restricted_shares_analysis = FetchRestrictedSharesData(raw)]) = <<>>

\* a finished run whose release was rated at the highest tier, with the
\* probability left at the baseline
C24_HighTierReached ==
    /\ Done /\ LockupTier = "high_zh"
    /\ result.prediction.probability = 50
    /\ result.prediction.key_factors = <<"overall_analysis">>


\* the five domains whose nudges C29 is about
SilentKeys ==
    { "margin_analysis", "northbound_analysis", "block_trade_analysis",
      "shareholder_analysis", "institution_analysis" }

SilentFactors ==
    { "margin_up", "margin_down", "northbound_inflow", "northbound_outflow",
      "block_premium", "block_discount", "holders_down", "holders_up",
      "inst_holding_up", "inst_holding_down" }

\* the result that holds the section `value` under `key` and nothing else
OnlySection(key, value) == [EmptyResult EXCEPT ![key] = value]

\* no record the five modules can return makes its domain nudge
SilentOnEveryRecord ==
    /\ \A raw \in MarginRaw :
          MarginNudges(OnlySection("margin_analysis", FetchMarginData(raw))) = <<>>
    /\ \A raw \in NorthboundRaw :
          NorthboundNudges(OnlySection("northbound_analysis",
                                       FetchNorthboundData(raw))) = <<>>
    /\ \A raw \in BlockTradeRaw :
          BlockTradeNudges(OnlySection("block_trade_analysis",
                                       FetchBlockTradeData(raw))) = <<>>
    /\ \A raw \in ShareholderRaw :
          ShareholderNudges(OnlySection("shareholder_analysis",
                                        FetchShareholderData(raw))) = <<>>
    /\ \A raw \in InstitutionRaw :
          InstitutionNudges(OnlySection("institution_analysis",
                                        FetchInstitutionData(raw))) = <<>>

\* C29: for every record the margin, northbound, block trade, shareholder
\* and institution modules can return, the prediction applies no nudge and
\* adds no factor label for that domain: in every finished run, and for
\* each module's records taken alone.
C29_SilentDomains ==
    Done =>
        /\ \A k \in SilentKeys : DomainNudges(k, result) = <<>>
        /\ FactorSet \cap SilentFactors = {}
        /\ SilentOnEveryRecord

\* a finished run in which the margin balance grew by 10% and the
\* probability stayed at the baseline
C29_Witness ==
    /\ Done
    /\ Get(Get(result.margin_analysis, "analysis", EmptyDict), "margin_trend", "") = "up_big"
    /\ Nudges(result) = <<>>
    /\ result.prediction.probability = 50


--------------------------------------------------------------------------
(* stock_analyzer.py : the aggregation (risk assessment and prediction)    *)
(* run again on the sections of a finished run                             *)

TwiceInit ==
    /\ \E q \in {EmptyDict} \cup {BasicInfo(x) : x \in Quotes},
          t \in {EmptyDict} \cup {TechnicalSection(k) : k \in Klines},
          f \in {EmptyDict} \cup {FundamentalSection(x) : x \in Fundamentals},
          c \in {EmptyDict} \cup {FundFlowSection(x) : x \in CapitalFlows} :
          /\ result = [EmptyResult EXCEPT !.basic_info = q,
                                          !.technical_analysis = t,
                                          !.fundamental_analysis = f,
                                          !.fund_flow_analysis = c,
                                          !.news_analysis = NewsFailed,
                                          !.chip_analysis = ChipFailed]
          /\ informative = Cardinality({x \in 1..4 : Truthy(<<q, t, f, c>>[x])})
    /\ pc = "risk"
    /\ trend_probability = Baseline
    /\ outage = "raises"
    /\ halves = [high |-> FALSE, low |-> FALSE]
    /\ df = <<>>
    /\ trend = EmptyDict
    /\ cpc = "idle"

\* the aggregation is entered again with the same sections; what the
\* earlier run left (its outputs in result, the value of the local) is
\* still there when it starts
RunAgain ==
    /\ pc = "done"
    /\ pc' = "risk"
    /\ UNCHANGED <<result, trend_probability, informative, outage, df, trend, cpc, halves>>

TwiceNext == Step16_Risk \/ Step17_Prediction \/ RunAgain

SpecTwice == TwiceInit /\ [][TwiceNext]_vars

\* an earlier run left its output
RanBefore == Truthy(result.prediction)

--------------------------------------------------------------------------
(* stock_analyzer.py : the recommendation text of a finished run          *)

Predicted == pc = "done" /\ Truthy(result.prediction)

SellSideTexts == {"sell_or_wait", "reduce_or_wait"}

\* C28: in analyze_stock the sell-side texts are never produced: whenever
\* the classification is "down" the probability handed to the lookup is
\* below 0.4 and the text is the plain "wait"; a classification of "up"
\* never gives the plain "wait".
C28_SellSideUnreachable ==
    Predicted =>
        /\ result.prediction.recommendation \notin SellSideTexts
        /\ result.prediction.trend = "down" =>
              /\ FLt(trend_probability, FLit(40))
              /\ result.prediction.recommendation = "wait"
        /\ result.prediction.trend = "up" =>
              /\ FGt(trend_probability, FLit(60))
              /\ result.prediction.recommendation # "wait"

\* a run classified "down" that ended with the plain "wait"
C28_Witness ==
    /\ Predicted
    /\ result.prediction.trend = "down"
    /\ result.prediction.recommendation = "wait"

\* a run classified "up" below 0.7: the "watch" text
C28_WatchReached ==
    /\ Predicted
    /\ result.prediction.trend = "up"
    /\ result.prediction.recommendation = "watch_for_entry"


--------------------------------------------------------------------------
(* chip_analysis.py : which data points the two windows of a comparison   *)
(* hold                                                                    *)

\* the data points (trading days) of a slice of the series
Days(s) == { s[i].day : i \in DOMAIN s }

Disjoint(a, b) == Days(a) \cap Days(b) = {}

\* the windows of the 70%-band comparison (lines 317-319)
BandRecent(d) == ILocFrom(d, -5)
BandEarly(d)  == IF Len(d) >= 15 THEN ILoc(d, -15, -5) ELSE ILoc(d, 0, 5)

\* C30: in every comparison the trend analysis makes (each computed
\* horizon, the main last-5-points comparison, the 70%-band comparison) the
\* recent window and the earlier window share no data point, for every
\* series of at least 5 points.
C30_WindowsDisjoint ==
    Compared =>
        /\ \A p \in DOMAIN trend.multi_period :
               Disjoint(PeriodRecent(df, PeriodLen(p)), PeriodEarlier(df, PeriodLen(p)))
        /\ Disjoint(MainRecent(df), MainEarly(df))
        /\ Len(df) >= 10 => Disjoint(BandRecent(df), BandEarly(df))

\* what the code guarantees: the band windows never share a point; the
\* main windows share one exactly when the series has fewer than 10
\* points; the windows of a computed horizon share one exactly when the
\* series has fewer than twice the horizon's points
C30_OverlapOnShortSeries ==
    Compared =>
        /\ \A p \in DOMAIN trend.multi_period :
               Disjoint(PeriodRecent(df, PeriodLen(p)), PeriodEarlier(df, PeriodLen(p)))
                   <=> Len(df) >= 2 * PeriodLen(p)
        /\ Disjoint(MainRecent(df), MainEarly(df)) <=> Len(df) >= 10
        /\ Len(df) >= 10 =>
               /\ Disjoint(BandRecent(df), BandEarly(df))
               /\ SameMean(Recent70(df), Mean(BandRecent(df), "c70"))
               /\ SameMean(Early70(df), Mean(BandEarly(df), "c70"))

\* 7 points: the main comparison reads days 3..5 in both windows
C30_MainOverlapReached ==
    /\ Compared /\ Len(df) = 7
    /\ Days(MainRecent(df)) \cap Days(MainEarly(df)) = 3..5

\* 15 points: the medium horizon reads days 6..10 in both windows
C30_HorizonOverlapReached ==
    /\ Compared /\ Len(df) = 15
    /\ "medium" \in DOMAIN trend.multi_period
    /\ Days(PeriodRecent(df, 10)) \cap Days(PeriodEarlier(df, 10)) = 6..10

==========================================================================
